---- MODULE Spec2Model ----
(***************************************************************************)
(* Model of personal_library_manager.py: the Book / Library layer and the  *)
(* Streamlit pages that call it.                                           *)
(*                                                                         *)
(* Representation of Python values:                                        *)
(*   - a str the code inspects (lower(), "in", strip(), truthiness) is a   *)
(*     sequence of characters: "Du" is <<"D","u">>, "" is <<>>;            *)
(*   - a str the code only stores and compares (the library name, file    *)
(*     paths, the names of attributes and dictionary keys) is a TLA+       *)
(*     string;                                                             *)
(*   - an Optional[int] is <<>> for None and <<n>> for the integer n;      *)
(*   - None where the code declares a str is NoneStr, and where it declares *)
(*     a list of str NoneList: neither is a str or a list, "" and [] are    *)
(*     <<>>;                                                                *)
(*   - a list is a sequence; a book id i of the code is position i + 1;    *)
(*   - a Book object is a record of its sixteen data attributes and of     *)
(*     extra, the other items of its __dict__ in insertion order;          *)
(*   - a dict (the keyword arguments of Book, a JSON object) is a function *)
(*     from its keys;                                                      *)
(*   - a dict the code walks in insertion order (the kwargs of update_book *)
(*     and of filter_books, the histograms of get_statistics) is the       *)
(*     sequence of its (key, value) items.                                 *)
(***************************************************************************)
EXTENDS Integers, Sequences, FiniteSets, TLC

VARIABLES
    name,       \* Library.name
    books,      \* Library.books
    file_path,  \* Library.file_path
    files,      \* the file system: path -> document
    today,      \* datetime.datetime.now(), as a proleptic Gregorian ordinal
    last,       \* the last call on the library: operation, arguments, outcome
    nops,       \* number of steps (calls and days) so far
    session,    \* st.session_state, without the library
    page,       \* what the last script run of main() left on the screen
    chosen      \* history: where the book is that the user chose, for each
                \* key of the session state that holds a book id

vars == <<name, books, file_path, files, today, last, nops, session, page, chosen>>

\* the part of the state only the user interface touches
uivars == <<session, page, chosen>>

----------------------------------------------------------------------------
(* Bounds of the model *)

MaxBooks == 3
MaxOps == 3

----------------------------------------------------------------------------
(* Python built-ins used by the code *)

NoneVal == <<>>
Some(n) == <<n>>

\* None in the place of a str: a sequence no str is, since "None" is no
\* character
NoneStr == <<"None">>

\* None in the place of a list of str
NoneList == <<NoneStr>>

RECURSIVE Concat(_)
\* "".join(parts), the parts joined by halves
Concat(parts) ==
    IF parts = <<>> THEN <<>>
    ELSE IF Len(parts) = 1 THEN parts[1]
    ELSE LET half == Len(parts) \div 2
         IN  Concat(SubSeq(parts, 1, half)) \o Concat(SubSeq(parts, half + 1, Len(parts)))

(* Characters.  A character is the TLA+ string that holds it; a character   *)
(* a TLA+ string cannot hold, or one that is not printable, is the string   *)
(* "U+" followed by its code point in four or more hexadecimal digits       *)
(* ("U+0130"), but for the tab "\t", the line feed "\n", the form feed "\f"  *)
(* and the carriage return "\r".  The tables below are those of the Unicode *)
(* database of Python 3.11 (14.0.0).                                        *)

\* the characters c of which str.lower() is another single character, in
\* the order of their code points
UpperChars ==
    << "A","B","C","D","E","F","G","H","I","J","K","L","M","N",
       "O","P","Q","R","S","T","U","V","W","X","Y","Z","À","Á",
       "Â","Ã","Ä","Å","Æ","Ç","È","É","Ê","Ë","Ì","Í","Î","Ï",
       "Ð","Ñ","Ò","Ó","Ô","Õ","Ö","Ø","Ù","Ú","Û","Ü","Ý","Þ",
       "U+0100","U+0102","U+0104","U+0106","U+0108","U+010A","U+010C","U+010E","U+0110","U+0112","U+0114","U+0116","U+0118","U+011A",
       "U+011C","U+011E","U+0120","U+0122","U+0124","U+0126","U+0128","U+012A","U+012C","U+012E","U+0132","U+0134","U+0136","U+0139",
       "U+013B","U+013D","U+013F","U+0141","U+0143","U+0145","U+0147","U+014A","U+014C","U+014E","U+0150","U+0152","U+0154","U+0156",
       "U+0158","U+015A","U+015C","U+015E","U+0160","U+0162","U+0164","U+0166","U+0168","U+016A","U+016C","U+016E","U+0170","U+0172",
       "U+0174","U+0176","U+0178","U+0179","U+017B","U+017D","Ɓ","Ƃ","Ƅ","Ɔ","Ƈ","Ɖ","Ɗ","Ƌ",
       "Ǝ","Ə","Ɛ","Ƒ","Ɠ","Ɣ","Ɩ","Ɨ","Ƙ","Ɯ","Ɲ","Ɵ","Ơ","Ƣ",
       "Ƥ","Ʀ","Ƨ","Ʃ","Ƭ","Ʈ","Ư","Ʊ","Ʋ","Ƴ","Ƶ","Ʒ","Ƹ","Ƽ",
       "Ǆ","ǅ","Ǉ","ǈ","Ǌ","ǋ","Ǎ","Ǐ","Ǒ","Ǔ","Ǖ","Ǘ","Ǚ","Ǜ",
       "Ǟ","Ǡ","Ǣ","Ǥ","Ǧ","Ǩ","Ǫ","Ǭ","Ǯ","Ǳ","ǲ","Ǵ","Ƕ","Ƿ",
       "Ǹ","Ǻ","Ǽ","Ǿ","U+0200","U+0202","U+0204","U+0206","U+0208","U+020A","U+020C","U+020E","U+0210","U+0212",
       "U+0214","U+0216","U+0218","U+021A","U+021C","U+021E","U+0220","U+0222","U+0224","U+0226","U+0228","U+022A","U+022C","U+022E",
       "U+0230","U+0232","U+023A","U+023B","U+023D","U+023E","U+0241","U+0243","U+0244","U+0245","U+0246","U+0248","U+024A","U+024C",
       "U+024E","U+0370","U+0372","U+0376","U+037F","Ά","Έ","Ή","Ί","Ό","Ύ","Ώ","Α","Β",
       "Γ","Δ","Ε","Ζ","Η","Θ","Ι","Κ","Λ","Μ","Ν","Ξ","Ο","Π",
       "Ρ","Σ","Τ","Υ","Φ","Χ","Ψ","Ω","Ϊ","Ϋ","Ϗ","Ϙ","Ϛ","Ϝ",
       "Ϟ","Ϡ","Ϣ","Ϥ","Ϧ","Ϩ","Ϫ","Ϭ","Ϯ","ϴ","Ϸ","Ϲ","Ϻ","Ͻ",
       "Ͼ","Ͽ","U+0400","U+0401","U+0402","U+0403","U+0404","U+0405","U+0406","U+0407","U+0408","U+0409","U+040A","U+040B",
       "U+040C","U+040D","U+040E","U+040F","U+0410","U+0411","U+0412","U+0413","U+0414","U+0415","U+0416","U+0417","U+0418","U+0419",
       "U+041A","U+041B","U+041C","U+041D","U+041E","U+041F","U+0420","U+0421","U+0422","U+0423","U+0424","U+0425","U+0426","U+0427",
       "U+0428","U+0429","U+042A","U+042B","U+042C","U+042D","U+042E","U+042F","U+0460","U+0462","U+0464","U+0466","U+0468","U+046A",
       "U+046C","U+046E","U+0470","U+0472","U+0474","U+0476","U+0478","U+047A","U+047C","U+047E","Ҁ","Ҋ","Ҍ","Ҏ",
       "Ґ","Ғ","Ҕ","Җ","Ҙ","Қ","Ҝ","Ҟ","Ҡ","Ң","Ҥ","Ҧ","Ҩ","Ҫ",
       "Ҭ","Ү","Ұ","Ҳ","Ҵ","Ҷ","Ҹ","Һ","Ҽ","Ҿ","Ӏ","Ӂ","Ӄ","Ӆ",
       "Ӈ","Ӊ","Ӌ","Ӎ","Ӑ","Ӓ","Ӕ","Ӗ","Ә","Ӛ","Ӝ","Ӟ","Ӡ","Ӣ",
       "Ӥ","Ӧ","Ө","Ӫ","Ӭ","Ӯ","Ӱ","Ӳ","Ӵ","Ӷ","Ӹ","Ӻ","Ӽ","Ӿ",
       "U+0500","U+0502","U+0504","U+0506","U+0508","U+050A","U+050C","U+050E","U+0510","U+0512","U+0514","U+0516","U+0518","U+051A",
       "U+051C","U+051E","U+0520","U+0522","U+0524","U+0526","U+0528","U+052A","U+052C","U+052E","U+0531","U+0532","U+0533","U+0534",
       "U+0535","U+0536","U+0537","U+0538","U+0539","U+053A","U+053B","U+053C","U+053D","U+053E","U+053F","U+0540","U+0541","U+0542",
       "U+0543","U+0544","U+0545","U+0546","U+0547","U+0548","U+0549","U+054A","U+054B","U+054C","U+054D","U+054E","U+054F","U+0550",
       "U+0551","U+0552","U+0553","U+0554","U+0555","U+0556","Ⴀ","Ⴁ","Ⴂ","Ⴃ","Ⴄ","Ⴅ","Ⴆ","Ⴇ",
       "Ⴈ","Ⴉ","Ⴊ","Ⴋ","Ⴌ","Ⴍ","Ⴎ","Ⴏ","Ⴐ","Ⴑ","Ⴒ","Ⴓ","Ⴔ","Ⴕ",
       "Ⴖ","Ⴗ","Ⴘ","Ⴙ","Ⴚ","Ⴛ","Ⴜ","Ⴝ","Ⴞ","Ⴟ","Ⴠ","Ⴡ","Ⴢ","Ⴣ",
       "Ⴤ","Ⴥ","Ⴧ","Ⴭ","Ꭰ","Ꭱ","Ꭲ","Ꭳ","Ꭴ","Ꭵ","Ꭶ","Ꭷ","Ꭸ","Ꭹ",
       "Ꭺ","Ꭻ","Ꭼ","Ꭽ","Ꭾ","Ꭿ","Ꮀ","Ꮁ","Ꮂ","Ꮃ","Ꮄ","Ꮅ","Ꮆ","Ꮇ",
       "Ꮈ","Ꮉ","Ꮊ","Ꮋ","Ꮌ","Ꮍ","Ꮎ","Ꮏ","Ꮐ","Ꮑ","Ꮒ","Ꮓ","Ꮔ","Ꮕ",
       "Ꮖ","Ꮗ","Ꮘ","Ꮙ","Ꮚ","Ꮛ","Ꮜ","Ꮝ","Ꮞ","Ꮟ","Ꮠ","Ꮡ","Ꮢ","Ꮣ",
       "Ꮤ","Ꮥ","Ꮦ","Ꮧ","Ꮨ","Ꮩ","Ꮪ","Ꮫ","Ꮬ","Ꮭ","Ꮮ","Ꮯ","Ꮰ","Ꮱ",
       "Ꮲ","Ꮳ","Ꮴ","Ꮵ","Ꮶ","Ꮷ","Ꮸ","Ꮹ","Ꮺ","Ꮻ","Ꮼ","Ꮽ","Ꮾ","Ꮿ",
       "Ᏸ","Ᏹ","Ᏺ","Ᏻ","Ᏼ","Ᏽ","Ა","Ბ","Გ","Დ","Ე","Ვ","Ზ","Თ",
       "Ი","Კ","Ლ","Მ","Ნ","Ო","Პ","Ჟ","Რ","Ს","Ტ","Უ","Ფ","Ქ",
       "Ღ","Ყ","Შ","Ჩ","Ც","Ძ","Წ","Ჭ","Ხ","Ჯ","Ჰ","Ჱ","Ჲ","Ჳ",
       "Ჴ","Ჵ","Ჶ","Ჷ","Ჸ","Ჹ","Ჺ","Ჽ","Ჾ","Ჿ","U+1E00","U+1E02","U+1E04","U+1E06",
       "U+1E08","U+1E0A","U+1E0C","U+1E0E","U+1E10","U+1E12","U+1E14","U+1E16","U+1E18","U+1E1A","U+1E1C","U+1E1E","U+1E20","U+1E22",
       "U+1E24","U+1E26","U+1E28","U+1E2A","U+1E2C","U+1E2E","U+1E30","U+1E32","U+1E34","U+1E36","U+1E38","U+1E3A","U+1E3C","U+1E3E",
       "U+1E40","U+1E42","U+1E44","U+1E46","U+1E48","U+1E4A","U+1E4C","U+1E4E","U+1E50","U+1E52","U+1E54","U+1E56","U+1E58","U+1E5A",
       "U+1E5C","U+1E5E","U+1E60","U+1E62","U+1E64","U+1E66","U+1E68","U+1E6A","U+1E6C","U+1E6E","U+1E70","U+1E72","U+1E74","U+1E76",
       "U+1E78","U+1E7A","U+1E7C","U+1E7E","Ẁ","Ẃ","Ẅ","Ẇ","Ẉ","Ẋ","Ẍ","Ẏ","Ẑ","Ẓ",
       "Ẕ","ẞ","Ạ","Ả","Ấ","Ầ","Ẩ","Ẫ","Ậ","Ắ","Ằ","Ẳ","Ẵ","Ặ",
       "Ẹ","Ẻ","Ẽ","Ế","Ề","Ể","Ễ","Ệ","Ỉ","Ị","Ọ","Ỏ","Ố","Ồ",
       "Ổ","Ỗ","Ộ","Ớ","Ờ","Ở","Ỡ","Ợ","Ụ","Ủ","Ứ","Ừ","Ử","Ữ",
       "Ự","Ỳ","Ỵ","Ỷ","Ỹ","Ỻ","Ỽ","Ỿ","U+1F08","U+1F09","U+1F0A","U+1F0B","U+1F0C","U+1F0D",
       "U+1F0E","U+1F0F","U+1F18","U+1F19","U+1F1A","U+1F1B","U+1F1C","U+1F1D","U+1F28","U+1F29","U+1F2A","U+1F2B","U+1F2C","U+1F2D",
       "U+1F2E","U+1F2F","U+1F38","U+1F39","U+1F3A","U+1F3B","U+1F3C","U+1F3D","U+1F3E","U+1F3F","U+1F48","U+1F49","U+1F4A","U+1F4B",
       "U+1F4C","U+1F4D","U+1F59","U+1F5B","U+1F5D","U+1F5F","U+1F68","U+1F69","U+1F6A","U+1F6B","U+1F6C","U+1F6D","U+1F6E","U+1F6F",
       "ᾈ","ᾉ","ᾊ","ᾋ","ᾌ","ᾍ","ᾎ","ᾏ","ᾘ","ᾙ","ᾚ","ᾛ","ᾜ","ᾝ",
       "ᾞ","ᾟ","ᾨ","ᾩ","ᾪ","ᾫ","ᾬ","ᾭ","ᾮ","ᾯ","Ᾰ","Ᾱ","Ὰ","Ά",
       "ᾼ","Ὲ","Έ","Ὴ","Ή","ῌ","Ῐ","Ῑ","Ὶ","Ί","Ῠ","Ῡ","Ὺ","Ύ",
       "Ῥ","Ὸ","Ό","Ὼ","Ώ","ῼ","U+2126","U+212A","U+212B","U+2132","U+2160","U+2161","U+2162","U+2163",
       "U+2164","U+2165","U+2166","U+2167","U+2168","U+2169","U+216A","U+216B","U+216C","U+216D","U+216E","U+216F","Ↄ","Ⓐ",
       "Ⓑ","Ⓒ","Ⓓ","Ⓔ","Ⓕ","Ⓖ","Ⓗ","Ⓘ","Ⓙ","Ⓚ","Ⓛ","Ⓜ","Ⓝ","Ⓞ",
       "Ⓟ","Ⓠ","Ⓡ","Ⓢ","Ⓣ","Ⓤ","Ⓥ","Ⓦ","Ⓧ","Ⓨ","Ⓩ","U+2C00","U+2C01","U+2C02",
       "U+2C03","U+2C04","U+2C05","U+2C06","U+2C07","U+2C08","U+2C09","U+2C0A","U+2C0B","U+2C0C","U+2C0D","U+2C0E","U+2C0F","U+2C10",
       "U+2C11","U+2C12","U+2C13","U+2C14","U+2C15","U+2C16","U+2C17","U+2C18","U+2C19","U+2C1A","U+2C1B","U+2C1C","U+2C1D","U+2C1E",
       "U+2C1F","U+2C20","U+2C21","U+2C22","U+2C23","U+2C24","U+2C25","U+2C26","U+2C27","U+2C28","U+2C29","U+2C2A","U+2C2B","U+2C2C",
       "U+2C2D","U+2C2E","U+2C2F","U+2C60","U+2C62","U+2C63","U+2C64","U+2C67","U+2C69","U+2C6B","U+2C6D","U+2C6E","U+2C6F","U+2C70",
       "U+2C72","U+2C75","U+2C7E","U+2C7F","Ⲁ","Ⲃ","Ⲅ","Ⲇ","Ⲉ","Ⲋ","Ⲍ","Ⲏ","Ⲑ","Ⲓ",
       "Ⲕ","Ⲗ","Ⲙ","Ⲛ","Ⲝ","Ⲟ","Ⲡ","Ⲣ","Ⲥ","Ⲧ","Ⲩ","Ⲫ","Ⲭ","Ⲯ",
       "Ⲱ","Ⲳ","Ⲵ","Ⲷ","Ⲹ","Ⲻ","Ⲽ","Ⲿ","Ⳁ","Ⳃ","Ⳅ","Ⳇ","Ⳉ","Ⳋ",
       "Ⳍ","Ⳏ","Ⳑ","Ⳓ","Ⳕ","Ⳗ","Ⳙ","Ⳛ","Ⳝ","Ⳟ","Ⳡ","Ⳣ","Ⳬ","Ⳮ",
       "Ⳳ","U+A640","U+A642","U+A644","U+A646","U+A648","U+A64A","U+A64C","U+A64E","U+A650","U+A652","U+A654","U+A656","U+A658",
       "U+A65A","U+A65C","U+A65E","U+A660","U+A662","U+A664","U+A666","U+A668","U+A66A","U+A66C","Ꚁ","Ꚃ","Ꚅ","Ꚇ",
       "Ꚉ","Ꚋ","Ꚍ","Ꚏ","Ꚑ","Ꚓ","Ꚕ","Ꚗ","Ꚙ","Ꚛ","U+A722","U+A724","U+A726","U+A728",
       "U+A72A","U+A72C","U+A72E","U+A732","U+A734","U+A736","U+A738","U+A73A","U+A73C","U+A73E","U+A740","U+A742","U+A744","U+A746",
       "U+A748","U+A74A","U+A74C","U+A74E","U+A750","U+A752","U+A754","U+A756","U+A758","U+A75A","U+A75C","U+A75E","U+A760","U+A762",
       "U+A764","U+A766","U+A768","U+A76A","U+A76C","U+A76E","U+A779","U+A77B","U+A77D","U+A77E","Ꞁ","Ꞃ","Ꞅ","Ꞇ",
       "Ꞌ","Ɥ","Ꞑ","Ꞓ","Ꞗ","Ꞙ","Ꞛ","Ꞝ","Ꞟ","Ꞡ","Ꞣ","Ꞥ","Ꞧ","Ꞩ",
       "Ɦ","Ɜ","Ɡ","Ɬ","Ɪ","Ʞ","Ʇ","Ʝ","Ꭓ","Ꞵ","Ꞷ","Ꞹ","Ꞻ","Ꞽ",
       "Ꞿ","Ꟁ","Ꟃ","Ꞔ","Ʂ","Ᶎ","Ꟈ","Ꟊ","Ꟑ","Ꟗ","Ꟙ","Ꟶ","U+FF21","U+FF22",
       "U+FF23","U+FF24","U+FF25","U+FF26","U+FF27","U+FF28","U+FF29","U+FF2A","U+FF2B","U+FF2C","U+FF2D","U+FF2E","U+FF2F","U+FF30",
       "U+FF31","U+FF32","U+FF33","U+FF34","U+FF35","U+FF36","U+FF37","U+FF38","U+FF39","U+FF3A","U+10400","U+10401","U+10402","U+10403",
       "U+10404","U+10405","U+10406","U+10407","U+10408","U+10409","U+1040A","U+1040B","U+1040C","U+1040D","U+1040E","U+1040F","U+10410","U+10411",
       "U+10412","U+10413","U+10414","U+10415","U+10416","U+10417","U+10418","U+10419","U+1041A","U+1041B","U+1041C","U+1041D","U+1041E","U+1041F",
       "U+10420","U+10421","U+10422","U+10423","U+10424","U+10425","U+10426","U+10427","U+104B0","U+104B1","U+104B2","U+104B3","U+104B4","U+104B5",
       "U+104B6","U+104B7","U+104B8","U+104B9","U+104BA","U+104BB","U+104BC","U+104BD","U+104BE","U+104BF","U+104C0","U+104C1","U+104C2","U+104C3",
       "U+104C4","U+104C5","U+104C6","U+104C7","U+104C8","U+104C9","U+104CA","U+104CB","U+104CC","U+104CD","U+104CE","U+104CF","U+104D0","U+104D1",
       "U+104D2","U+104D3","U+10570","U+10571","U+10572","U+10573","U+10574","U+10575","U+10576","U+10577","U+10578","U+10579","U+1057A","U+1057C",
       "U+1057D","U+1057E","U+1057F","U+10580","U+10581","U+10582","U+10583","U+10584","U+10585","U+10586","U+10587","U+10588","U+10589","U+1058A",
       "U+1058C","U+1058D","U+1058E","U+1058F","U+10590","U+10591","U+10592","U+10594","U+10595","U+10C80","U+10C81","U+10C82","U+10C83","U+10C84",
       "U+10C85","U+10C86","U+10C87","U+10C88","U+10C89","U+10C8A","U+10C8B","U+10C8C","U+10C8D","U+10C8E","U+10C8F","U+10C90","U+10C91","U+10C92",
       "U+10C93","U+10C94","U+10C95","U+10C96","U+10C97","U+10C98","U+10C99","U+10C9A","U+10C9B","U+10C9C","U+10C9D","U+10C9E","U+10C9F","U+10CA0",
       "U+10CA1","U+10CA2","U+10CA3","U+10CA4","U+10CA5","U+10CA6","U+10CA7","U+10CA8","U+10CA9","U+10CAA","U+10CAB","U+10CAC","U+10CAD","U+10CAE",
       "U+10CAF","U+10CB0","U+10CB1","U+10CB2","U+118A0","U+118A1","U+118A2","U+118A3","U+118A4","U+118A5","U+118A6","U+118A7","U+118A8","U+118A9",
       "U+118AA","U+118AB","U+118AC","U+118AD","U+118AE","U+118AF","U+118B0","U+118B1","U+118B2","U+118B3","U+118B4","U+118B5","U+118B6","U+118B7",
       "U+118B8","U+118B9","U+118BA","U+118BB","U+118BC","U+118BD","U+118BE","U+118BF","U+16E40","U+16E41","U+16E42","U+16E43","U+16E44","U+16E45",
       "U+16E46","U+16E47","U+16E48","U+16E49","U+16E4A","U+16E4B","U+16E4C","U+16E4D","U+16E4E","U+16E4F","U+16E50","U+16E51","U+16E52","U+16E53",
       "U+16E54","U+16E55","U+16E56","U+16E57","U+16E58","U+16E59","U+16E5A","U+16E5B","U+16E5C","U+16E5D","U+16E5E","U+16E5F","U+1E900","U+1E901",
       "U+1E902","U+1E903","U+1E904","U+1E905","U+1E906","U+1E907","U+1E908","U+1E909","U+1E90A","U+1E90B","U+1E90C","U+1E90D","U+1E90E","U+1E90F",
       "U+1E910","U+1E911","U+1E912","U+1E913","U+1E914","U+1E915","U+1E916","U+1E917","U+1E918","U+1E919","U+1E91A","U+1E91B","U+1E91C","U+1E91D",
       "U+1E91E","U+1E91F","U+1E920","U+1E921" >>

\* c.lower() for the characters c of UpperChars, in the same order
LowerChars ==
    << "a","b","c","d","e","f","g","h","i","j","k","l","m","n",
       "o","p","q","r","s","t","u","v","w","x","y","z","à","á",
       "â","ã","ä","å","æ","ç","è","é","ê","ë","ì","í","î","ï",
       "ð","ñ","ò","ó","ô","õ","ö","ø","ù","ú","û","ü","ý","þ",
       "U+0101","U+0103","U+0105","U+0107","U+0109","U+010B","U+010D","U+010F","U+0111","U+0113","U+0115","U+0117","U+0119","U+011B",
       "U+011D","U+011F","U+0121","U+0123","U+0125","U+0127","U+0129","U+012B","U+012D","U+012F","U+0133","U+0135","U+0137","U+013A",
       "U+013C","U+013E","U+0140","U+0142","U+0144","U+0146","U+0148","U+014B","U+014D","U+014F","U+0151","U+0153","U+0155","U+0157",
       "U+0159","U+015B","U+015D","U+015F","U+0161","U+0163","U+0165","U+0167","U+0169","U+016B","U+016D","U+016F","U+0171","U+0173",
       "U+0175","U+0177","ÿ","U+017A","U+017C","U+017E","U+0253","ƃ","ƅ","U+0254","ƈ","U+0256","U+0257","ƌ",
       "ǝ","U+0259","U+025B","ƒ","U+0260","U+0263","U+0269","U+0268","ƙ","U+026F","U+0272","U+0275","ơ","ƣ",
       "ƥ","ʀ","ƨ","ʃ","ƭ","ʈ","ư","ʊ","ʋ","ƴ","ƶ","ʒ","ƹ","ƽ",
       "ǆ","ǆ","ǉ","ǉ","ǌ","ǌ","ǎ","ǐ","ǒ","ǔ","ǖ","ǘ","ǚ","ǜ",
       "ǟ","ǡ","ǣ","ǥ","ǧ","ǩ","ǫ","ǭ","ǯ","ǳ","ǳ","ǵ","ƕ","ƿ",
       "ǹ","ǻ","ǽ","ǿ","U+0201","U+0203","U+0205","U+0207","U+0209","U+020B","U+020D","U+020F","U+0211","U+0213",
       "U+0215","U+0217","U+0219","U+021B","U+021D","U+021F","ƞ","U+0223","U+0225","U+0227","U+0229","U+022B","U+022D","U+022F",
       "U+0231","U+0233","U+2C65","U+023C","ƚ","U+2C66","U+0242","ƀ","ʉ","ʌ","U+0247","U+0249","U+024B","U+024D",
       "U+024F","U+0371","U+0373","U+0377","ϳ","ά","έ","ή","ί","ό","ύ","ώ","α","β",
       "γ","δ","ε","ζ","η","θ","ι","κ","λ","μ","ν","ξ","ο","π",
       "ρ","σ","τ","υ","φ","χ","ψ","ω","ϊ","ϋ","ϗ","ϙ","ϛ","ϝ",
       "ϟ","ϡ","ϣ","ϥ","ϧ","ϩ","ϫ","ϭ","ϯ","θ","ϸ","ϲ","ϻ","U+037B",
       "U+037C","U+037D","U+0450","U+0451","U+0452","U+0453","U+0454","U+0455","U+0456","U+0457","U+0458","U+0459","U+045A","U+045B",
       "U+045C","U+045D","U+045E","U+045F","U+0430","U+0431","U+0432","U+0433","U+0434","U+0435","U+0436","U+0437","U+0438","U+0439",
       "U+043A","U+043B","U+043C","U+043D","U+043E","U+043F","U+0440","U+0441","U+0442","U+0443","U+0444","U+0445","U+0446","U+0447",
       "U+0448","U+0449","U+044A","U+044B","U+044C","U+044D","U+044E","U+044F","U+0461","U+0463","U+0465","U+0467","U+0469","U+046B",
       "U+046D","U+046F","U+0471","U+0473","U+0475","U+0477","U+0479","U+047B","U+047D","U+047F","ҁ","ҋ","ҍ","ҏ",
       "ґ","ғ","ҕ","җ","ҙ","қ","ҝ","ҟ","ҡ","ң","ҥ","ҧ","ҩ","ҫ",
       "ҭ","ү","ұ","ҳ","ҵ","ҷ","ҹ","һ","ҽ","ҿ","ӏ","ӂ","ӄ","ӆ",
       "ӈ","ӊ","ӌ","ӎ","ӑ","ӓ","ӕ","ӗ","ә","ӛ","ӝ","ӟ","ӡ","ӣ",
       "ӥ","ӧ","ө","ӫ","ӭ","ӯ","ӱ","ӳ","ӵ","ӷ","ӹ","ӻ","ӽ","ӿ",
       "U+0501","U+0503","U+0505","U+0507","U+0509","U+050B","U+050D","U+050F","U+0511","U+0513","U+0515","U+0517","U+0519","U+051B",
       "U+051D","U+051F","U+0521","U+0523","U+0525","U+0527","U+0529","U+052B","U+052D","U+052F","U+0561","U+0562","U+0563","U+0564",
       "U+0565","U+0566","U+0567","U+0568","U+0569","U+056A","U+056B","U+056C","U+056D","U+056E","U+056F","U+0570","U+0571","U+0572",
       "U+0573","U+0574","U+0575","U+0576","U+0577","U+0578","U+0579","U+057A","U+057B","U+057C","U+057D","U+057E","U+057F","ր",
       "ց","ւ","փ","ք","օ","ֆ","U+2D00","U+2D01","U+2D02","U+2D03","U+2D04","U+2D05","U+2D06","U+2D07",
       "U+2D08","U+2D09","U+2D0A","U+2D0B","U+2D0C","U+2D0D","U+2D0E","U+2D0F","U+2D10","U+2D11","U+2D12","U+2D13","U+2D14","U+2D15",
       "U+2D16","U+2D17","U+2D18","U+2D19","U+2D1A","U+2D1B","U+2D1C","U+2D1D","U+2D1E","U+2D1F","U+2D20","U+2D21","U+2D22","U+2D23",
       "U+2D24","U+2D25","U+2D27","U+2D2D","U+AB70","U+AB71","U+AB72","U+AB73","U+AB74","U+AB75","U+AB76","U+AB77","U+AB78","U+AB79",
       "U+AB7A","U+AB7B","U+AB7C","U+AB7D","U+AB7E","U+AB7F","ꮀ","ꮁ","ꮂ","ꮃ","ꮄ","ꮅ","ꮆ","ꮇ",
       "ꮈ","ꮉ","ꮊ","ꮋ","ꮌ","ꮍ","ꮎ","ꮏ","ꮐ","ꮑ","ꮒ","ꮓ","ꮔ","ꮕ",
       "ꮖ","ꮗ","ꮘ","ꮙ","ꮚ","ꮛ","ꮜ","ꮝ","ꮞ","ꮟ","ꮠ","ꮡ","ꮢ","ꮣ",
       "ꮤ","ꮥ","ꮦ","ꮧ","ꮨ","ꮩ","ꮪ","ꮫ","ꮬ","ꮭ","ꮮ","ꮯ","ꮰ","ꮱ",
       "ꮲ","ꮳ","ꮴ","ꮵ","ꮶ","ꮷ","ꮸ","ꮹ","ꮺ","ꮻ","ꮼ","ꮽ","ꮾ","ꮿ",
       "ᏸ","ᏹ","ᏺ","ᏻ","ᏼ","ᏽ","ა","ბ","გ","დ","ე","ვ","ზ","თ",
       "ი","კ","ლ","მ","ნ","ო","პ","ჟ","რ","ს","ტ","უ","ფ","ქ",
       "ღ","ყ","შ","ჩ","ც","ძ","წ","ჭ","ხ","ჯ","ჰ","ჱ","ჲ","ჳ",
       "ჴ","ჵ","ჶ","ჷ","ჸ","ჹ","ჺ","ჽ","ჾ","ჿ","U+1E01","U+1E03","U+1E05","U+1E07",
       "U+1E09","U+1E0B","U+1E0D","U+1E0F","U+1E11","U+1E13","U+1E15","U+1E17","U+1E19","U+1E1B","U+1E1D","U+1E1F","U+1E21","U+1E23",
       "U+1E25","U+1E27","U+1E29","U+1E2B","U+1E2D","U+1E2F","U+1E31","U+1E33","U+1E35","U+1E37","U+1E39","U+1E3B","U+1E3D","U+1E3F",
       "U+1E41","U+1E43","U+1E45","U+1E47","U+1E49","U+1E4B","U+1E4D","U+1E4F","U+1E51","U+1E53","U+1E55","U+1E57","U+1E59","U+1E5B",
       "U+1E5D","U+1E5F","U+1E61","U+1E63","U+1E65","U+1E67","U+1E69","U+1E6B","U+1E6D","U+1E6F","U+1E71","U+1E73","U+1E75","U+1E77",
       "U+1E79","U+1E7B","U+1E7D","U+1E7F","ẁ","ẃ","ẅ","ẇ","ẉ","ẋ","ẍ","ẏ","ẑ","ẓ",
       "ẕ","ß","ạ","ả","ấ","ầ","ẩ","ẫ","ậ","ắ","ằ","ẳ","ẵ","ặ",
       "ẹ","ẻ","ẽ","ế","ề","ể","ễ","ệ","ỉ","ị","ọ","ỏ","ố","ồ",
       "ổ","ỗ","ộ","ớ","ờ","ở","ỡ","ợ","ụ","ủ","ứ","ừ","ử","ữ",
       "ự","ỳ","ỵ","ỷ","ỹ","ỻ","ỽ","ỿ","U+1F00","U+1F01","U+1F02","U+1F03","U+1F04","U+1F05",
       "U+1F06","U+1F07","U+1F10","U+1F11","U+1F12","U+1F13","U+1F14","U+1F15","U+1F20","U+1F21","U+1F22","U+1F23","U+1F24","U+1F25",
       "U+1F26","U+1F27","U+1F30","U+1F31","U+1F32","U+1F33","U+1F34","U+1F35","U+1F36","U+1F37","U+1F40","U+1F41","U+1F42","U+1F43",
       "U+1F44","U+1F45","U+1F51","U+1F53","U+1F55","U+1F57","U+1F60","U+1F61","U+1F62","U+1F63","U+1F64","U+1F65","U+1F66","U+1F67",
       "ᾀ","ᾁ","ᾂ","ᾃ","ᾄ","ᾅ","ᾆ","ᾇ","ᾐ","ᾑ","ᾒ","ᾓ","ᾔ","ᾕ",
       "ᾖ","ᾗ","ᾠ","ᾡ","ᾢ","ᾣ","ᾤ","ᾥ","ᾦ","ᾧ","ᾰ","ᾱ","U+1F70","U+1F71",
       "ᾳ","U+1F72","U+1F73","U+1F74","U+1F75","ῃ","ῐ","ῑ","U+1F76","U+1F77","ῠ","ῡ","U+1F7A","U+1F7B",
       "ῥ","U+1F78","U+1F79","U+1F7C","U+1F7D","ῳ","ω","k","å","U+214E","U+2170","U+2171","U+2172","U+2173",
       "U+2174","U+2175","U+2176","U+2177","U+2178","U+2179","U+217A","U+217B","U+217C","U+217D","U+217E","U+217F","ↄ","ⓐ",
       "ⓑ","ⓒ","ⓓ","ⓔ","ⓕ","ⓖ","ⓗ","ⓘ","ⓙ","ⓚ","ⓛ","ⓜ","ⓝ","ⓞ",
       "ⓟ","ⓠ","ⓡ","ⓢ","ⓣ","ⓤ","ⓥ","ⓦ","ⓧ","ⓨ","ⓩ","U+2C30","U+2C31","U+2C32",
       "U+2C33","U+2C34","U+2C35","U+2C36","U+2C37","U+2C38","U+2C39","U+2C3A","U+2C3B","U+2C3C","U+2C3D","U+2C3E","U+2C3F","U+2C40",
       "U+2C41","U+2C42","U+2C43","U+2C44","U+2C45","U+2C46","U+2C47","U+2C48","U+2C49","U+2C4A","U+2C4B","U+2C4C","U+2C4D","U+2C4E",
       "U+2C4F","U+2C50","U+2C51","U+2C52","U+2C53","U+2C54","U+2C55","U+2C56","U+2C57","U+2C58","U+2C59","U+2C5A","U+2C5B","U+2C5C",
       "U+2C5D","U+2C5E","U+2C5F","U+2C61","U+026B","U+1D7D","U+027D","U+2C68","U+2C6A","U+2C6C","U+0251","U+0271","U+0250","U+0252",
       "U+2C73","U+2C76","U+023F","U+0240","ⲁ","ⲃ","ⲅ","ⲇ","ⲉ","ⲋ","ⲍ","ⲏ","ⲑ","ⲓ",
       "ⲕ","ⲗ","ⲙ","ⲛ","ⲝ","ⲟ","ⲡ","ⲣ","ⲥ","ⲧ","ⲩ","ⲫ","ⲭ","ⲯ",
       "ⲱ","ⲳ","ⲵ","ⲷ","ⲹ","ⲻ","ⲽ","ⲿ","ⳁ","ⳃ","ⳅ","ⳇ","ⳉ","ⳋ",
       "ⳍ","ⳏ","ⳑ","ⳓ","ⳕ","ⳗ","ⳙ","ⳛ","ⳝ","ⳟ","ⳡ","ⳣ","ⳬ","ⳮ",
       "ⳳ","U+A641","U+A643","U+A645","U+A647","U+A649","U+A64B","U+A64D","U+A64F","U+A651","U+A653","U+A655","U+A657","U+A659",
       "U+A65B","U+A65D","U+A65F","U+A661","U+A663","U+A665","U+A667","U+A669","U+A66B","U+A66D","ꚁ","ꚃ","ꚅ","ꚇ",
       "ꚉ","ꚋ","ꚍ","ꚏ","ꚑ","ꚓ","ꚕ","ꚗ","ꚙ","ꚛ","U+A723","U+A725","U+A727","U+A729",
       "U+A72B","U+A72D","U+A72F","U+A733","U+A735","U+A737","U+A739","U+A73B","U+A73D","U+A73F","U+A741","U+A743","U+A745","U+A747",
       "U+A749","U+A74B","U+A74D","U+A74F","U+A751","U+A753","U+A755","U+A757","U+A759","U+A75B","U+A75D","U+A75F","U+A761","U+A763",
       "U+A765","U+A767","U+A769","U+A76B","U+A76D","U+A76F","U+A77A","U+A77C","U+1D79","U+A77F","ꞁ","ꞃ","ꞅ","ꞇ",
       "ꞌ","U+0265","ꞑ","ꞓ","ꞗ","ꞙ","ꞛ","ꞝ","ꞟ","ꞡ","ꞣ","ꞥ","ꞧ","ꞩ",
       "U+0266","U+025C","U+0261","U+026C","U+026A","ʞ","ʇ","ʝ","U+AB53","ꞵ","ꞷ","ꞹ","ꞻ","ꞽ",
       "ꞿ","ꟁ","ꟃ","ꞔ","ʂ","ᶎ","ꟈ","ꟊ","ꟑ","ꟗ","ꟙ","ꟶ","U+FF41","U+FF42",
       "U+FF43","U+FF44","U+FF45","U+FF46","U+FF47","U+FF48","U+FF49","U+FF4A","U+FF4B","U+FF4C","U+FF4D","U+FF4E","U+FF4F","U+FF50",
       "U+FF51","U+FF52","U+FF53","U+FF54","U+FF55","U+FF56","U+FF57","U+FF58","U+FF59","U+FF5A","U+10428","U+10429","U+1042A","U+1042B",
       "U+1042C","U+1042D","U+1042E","U+1042F","U+10430","U+10431","U+10432","U+10433","U+10434","U+10435","U+10436","U+10437","U+10438","U+10439",
       "U+1043A","U+1043B","U+1043C","U+1043D","U+1043E","U+1043F","U+10440","U+10441","U+10442","U+10443","U+10444","U+10445","U+10446","U+10447",
       "U+10448","U+10449","U+1044A","U+1044B","U+1044C","U+1044D","U+1044E","U+1044F","U+104D8","U+104D9","U+104DA","U+104DB","U+104DC","U+104DD",
       "U+104DE","U+104DF","U+104E0","U+104E1","U+104E2","U+104E3","U+104E4","U+104E5","U+104E6","U+104E7","U+104E8","U+104E9","U+104EA","U+104EB",
       "U+104EC","U+104ED","U+104EE","U+104EF","U+104F0","U+104F1","U+104F2","U+104F3","U+104F4","U+104F5","U+104F6","U+104F7","U+104F8","U+104F9",
       "U+104FA","U+104FB","U+10597","U+10598","U+10599","U+1059A","U+1059B","U+1059C","U+1059D","U+1059E","U+1059F","U+105A0","U+105A1","U+105A3",
       "U+105A4","U+105A5","U+105A6","U+105A7","U+105A8","U+105A9","U+105AA","U+105AB","U+105AC","U+105AD","U+105AE","U+105AF","U+105B0","U+105B1",
       "U+105B3","U+105B4","U+105B5","U+105B6","U+105B7","U+105B8","U+105B9","U+105BB","U+105BC","U+10CC0","U+10CC1","U+10CC2","U+10CC3","U+10CC4",
       "U+10CC5","U+10CC6","U+10CC7","U+10CC8","U+10CC9","U+10CCA","U+10CCB","U+10CCC","U+10CCD","U+10CCE","U+10CCF","U+10CD0","U+10CD1","U+10CD2",
       "U+10CD3","U+10CD4","U+10CD5","U+10CD6","U+10CD7","U+10CD8","U+10CD9","U+10CDA","U+10CDB","U+10CDC","U+10CDD","U+10CDE","U+10CDF","U+10CE0",
       "U+10CE1","U+10CE2","U+10CE3","U+10CE4","U+10CE5","U+10CE6","U+10CE7","U+10CE8","U+10CE9","U+10CEA","U+10CEB","U+10CEC","U+10CED","U+10CEE",
       "U+10CEF","U+10CF0","U+10CF1","U+10CF2","U+118C0","U+118C1","U+118C2","U+118C3","U+118C4","U+118C5","U+118C6","U+118C7","U+118C8","U+118C9",
       "U+118CA","U+118CB","U+118CC","U+118CD","U+118CE","U+118CF","U+118D0","U+118D1","U+118D2","U+118D3","U+118D4","U+118D5","U+118D6","U+118D7",
       "U+118D8","U+118D9","U+118DA","U+118DB","U+118DC","U+118DD","U+118DE","U+118DF","U+16E60","U+16E61","U+16E62","U+16E63","U+16E64","U+16E65",
       "U+16E66","U+16E67","U+16E68","U+16E69","U+16E6A","U+16E6B","U+16E6C","U+16E6D","U+16E6E","U+16E6F","U+16E70","U+16E71","U+16E72","U+16E73",
       "U+16E74","U+16E75","U+16E76","U+16E77","U+16E78","U+16E79","U+16E7A","U+16E7B","U+16E7C","U+16E7D","U+16E7E","U+16E7F","U+1E922","U+1E923",
       "U+1E924","U+1E925","U+1E926","U+1E927","U+1E928","U+1E929","U+1E92A","U+1E92B","U+1E92C","U+1E92D","U+1E92E","U+1E92F","U+1E930","U+1E931",
       "U+1E932","U+1E933","U+1E934","U+1E935","U+1E936","U+1E937","U+1E938","U+1E939","U+1E93A","U+1E93B","U+1E93C","U+1E93D","U+1E93E","U+1E93F",
       "U+1E940","U+1E941","U+1E942","U+1E943" >>

\* the characters the final-sigma rule of str.lower() skips (Case_Ignorable)
CaseIgnorable ==
    { "'",".",":","^","U+0060","¨","U+00AD","¯","´","·","¸","ʰ","ʱ","ʲ",
       "ʳ","ʴ","ʵ","ʶ","ʷ","ʸ","ʹ","ʺ","ʻ","ʼ","ʽ","ʾ","ʿ","ˀ",
       "ˁ","˂","˃","˄","˅","ˆ","ˇ","ˈ","ˉ","ˊ","ˋ","ˌ","ˍ","ˎ",
       "ˏ","ː","ˑ","˒","˓","˔","˕","˖","˗","˘","˙","˚","˛","˜",
       "˝","˞","˟","ˠ","ˡ","ˢ","ˣ","ˤ","˥","˦","˧","˨","˩","˪",
       "˫","ˬ","˭","ˮ","˯","˰","˱","˲","˳","˴","˵","˶","˷","˸",
       "˹","˺","˻","˼","˽","˾","˿","U+0300","U+0301","U+0302","U+0303","U+0304","U+0305","U+0306",
       "U+0307","U+0308","U+0309","U+030A","U+030B","U+030C","U+030D","U+030E","U+030F","U+0310","U+0311","U+0312","U+0313","U+0314",
       "U+0315","U+0316","U+0317","U+0318","U+0319","U+031A","U+031B","U+031C","U+031D","U+031E","U+031F","U+0320","U+0321","U+0322",
       "U+0323","U+0324","U+0325","U+0326","U+0327","U+0328","U+0329","U+032A","U+032B","U+032C","U+032D","U+032E","U+032F","U+0330",
       "U+0331","U+0332","U+0333","U+0334","U+0335","U+0336","U+0337","U+0338","U+0339","U+033A","U+033B","U+033C","U+033D","U+033E",
       "U+033F","U+0340","U+0341","U+0342","U+0343","U+0344","U+0345","U+0346","U+0347","U+0348","U+0349","U+034A","U+034B","U+034C",
       "U+034D","U+034E","U+034F","U+0350","U+0351","U+0352","U+0353","U+0354","U+0355","U+0356","U+0357","U+0358","U+0359","U+035A",
       "U+035B","U+035C","U+035D","U+035E","U+035F","U+0360","U+0361","U+0362","U+0363","U+0364","U+0365","U+0366","U+0367","U+0368",
       "U+0369","U+036A","U+036B","U+036C","U+036D","U+036E","U+036F","U+0374","U+0375","U+037A","΄","΅","·","҃",
       "҄","҅","҆","҇","҈","҉","U+0559","U+055F","֑","֒","֓","֔","֕","֖",
       "֗","֘","֙","֚","֛","֜","֝","֞","֟","֠","֡","֢","֣","֤",
       "֥","֦","֧","֨","֩","֪","֫","֬","֭","֮","֯","ְ","ֱ","ֲ",
       "ֳ","ִ","ֵ","ֶ","ַ","ָ","ֹ","ֺ","ֻ","ּ","ֽ","ֿ","ׁ","ׂ",
       "ׄ","ׅ","ׇ","״","U+0600","U+0601","U+0602","U+0603","U+0604","U+0605","U+0610","U+0611","U+0612","U+0613",
       "U+0614","U+0615","U+0616","U+0617","U+0618","U+0619","U+061A","U+061C","U+0640","U+064B","U+064C","U+064D","U+064E","U+064F",
       "U+0650","U+0651","U+0652","U+0653","U+0654","U+0655","U+0656","U+0657","U+0658","U+0659","U+065A","U+065B","U+065C","U+065D",
       "U+065E","U+065F","U+0670","ۖ","ۗ","ۘ","ۙ","ۚ","ۛ","ۜ","U+06DD","۟","۠","ۡ",
       "ۢ","ۣ","ۤ","ۥ","ۦ","ۧ","ۨ","۪","۫","۬","ۭ","U+070F","U+0711","U+0730",
       "U+0731","U+0732","U+0733","U+0734","U+0735","U+0736","U+0737","U+0738","U+0739","U+073A","U+073B","U+073C","U+073D","U+073E",
       "U+073F","U+0740","U+0741","U+0742","U+0743","U+0744","U+0745","U+0746","U+0747","U+0748","U+0749","U+074A","ަ","ާ",
       "ި","ީ","ު","ޫ","ެ","ޭ","ޮ","ޯ","ް","߫","߬","߭","߮","߯",
       "߰","߱","߲","߳","ߴ","ߵ","ߺ","߽","U+0816","U+0817","U+0818","U+0819","U+081A","U+081B",
       "U+081C","U+081D","U+081E","U+081F","U+0820","U+0821","U+0822","U+0823","U+0824","U+0825","U+0826","U+0827","U+0828","U+0829",
       "U+082A","U+082B","U+082C","U+082D","U+0859","U+085A","U+085B","࢈","U+0890","U+0891","࢘","࢙","࢚","࢛",
       "࢜","࢝","࢞","࢟","ࣉ","࣊","࣋","࣌","࣍","࣎","࣏","࣐","࣑","࣒",
       "࣓","ࣔ","ࣕ","ࣖ","ࣗ","ࣘ","ࣙ","ࣚ","ࣛ","ࣜ","ࣝ","ࣞ","ࣟ","࣠",
       "࣡","U+08E2","ࣣ","ࣤ","ࣥ","ࣦ","ࣧ","ࣨ","ࣩ","࣪","࣫","࣬","࣭","࣮",
       "࣯","ࣰ","ࣱ","ࣲ","ࣳ","ࣴ","ࣵ","ࣶ","ࣷ","ࣸ","ࣹ","ࣺ","ࣻ","ࣼ",
       "ࣽ","ࣾ","ࣿ","U+0900","U+0901","U+0902","U+093A","U+093C","U+0941","U+0942","U+0943","U+0944","U+0945","U+0946",
       "U+0947","U+0948","U+094D","U+0951","U+0952","U+0953","U+0954","U+0955","U+0956","U+0957","U+0962","U+0963","U+0971","ঁ",
       "়","ু","ূ","ৃ","ৄ","্","ৢ","ৣ","৾","U+0A01","U+0A02","U+0A3C","U+0A41","U+0A42",
       "U+0A47","U+0A48","U+0A4B","U+0A4C","U+0A4D","U+0A51","U+0A70","U+0A71","U+0A75","ઁ","ં","઼","ુ","ૂ",
       "ૃ","ૄ","ૅ","ે","ૈ","્","ૢ","ૣ","ૺ","ૻ","ૼ","૽","૾","૿",
       "U+0B01","U+0B3C","U+0B3F","U+0B41","U+0B42","U+0B43","U+0B44","U+0B4D","U+0B55","U+0B56","U+0B62","U+0B63","ஂ","ீ",
       "்","U+0C00","U+0C04","U+0C3C","U+0C3E","U+0C3F","U+0C40","U+0C46","U+0C47","U+0C48","U+0C4A","U+0C4B","U+0C4C","U+0C4D",
       "U+0C55","U+0C56","U+0C62","U+0C63","ಁ","಼","ಿ","ೆ","ೌ","್","ೢ","ೣ","U+0D00","U+0D01",
       "U+0D3B","U+0D3C","U+0D41","U+0D42","U+0D43","U+0D44","U+0D4D","U+0D62","U+0D63","ඁ","්","ි","ී","ු",
       "ූ","U+0E31","U+0E34","U+0E35","U+0E36","U+0E37","U+0E38","U+0E39","U+0E3A","U+0E46","U+0E47","U+0E48","U+0E49","U+0E4A",
       "U+0E4B","U+0E4C","U+0E4D","U+0E4E","ັ","ິ","ີ","ຶ","ື","ຸ","ູ","຺","ົ","ຼ",
       "ໆ","່","້","໊","໋","໌","ໍ","U+0F18","U+0F19","U+0F35","U+0F37","U+0F39","U+0F71","U+0F72",
       "U+0F73","U+0F74","U+0F75","U+0F76","U+0F77","U+0F78","U+0F79","U+0F7A","U+0F7B","U+0F7C","U+0F7D","U+0F7E","ྀ","ཱྀ",
       "ྂ","ྃ","྄","྆","྇","ྍ","ྎ","ྏ","ྐ","ྑ","ྒ","ྒྷ","ྔ","ྕ",
       "ྖ","ྗ","ྙ","ྚ","ྛ","ྜ","ྜྷ","ྞ","ྟ","ྠ","ྡ","ྡྷ","ྣ","ྤ",
       "ྥ","ྦ","ྦྷ","ྨ","ྩ","ྪ","ྫ","ྫྷ","ྭ","ྮ","ྯ","ྰ","ྱ","ྲ",
       "ླ","ྴ","ྵ","ྶ","ྷ","ྸ","ྐྵ","ྺ","ྻ","ྼ","࿆","U+102D","U+102E","U+102F",
       "U+1030","U+1032","U+1033","U+1034","U+1035","U+1036","U+1037","U+1039","U+103A","U+103D","U+103E","U+1058","U+1059","U+105E",
       "U+105F","U+1060","U+1071","U+1072","U+1073","U+1074","ႂ","ႅ","ႆ","ႍ","ႝ","ჼ","U+135D","U+135E",
       "U+135F","U+1712","U+1713","U+1714","U+1732","U+1733","U+1752","U+1753","U+1772","U+1773","឴","឵","ិ","ី",
       "ឹ","ឺ","ុ","ូ","ួ","ំ","៉","៊","់","៌","៍","៎","៏","័",
       "៑","្","៓","ៗ","៝","U+180B","U+180C","U+180D","U+180E","U+180F","U+1843","ᢅ","ᢆ","ᢩ",
       "U+1920","U+1921","U+1922","U+1927","U+1928","U+1932","U+1939","U+193A","U+193B","U+1A17","U+1A18","U+1A1B","U+1A56","U+1A58",
       "U+1A59","U+1A5A","U+1A5B","U+1A5C","U+1A5D","U+1A5E","U+1A60","U+1A62","U+1A65","U+1A66","U+1A67","U+1A68","U+1A69","U+1A6A",
       "U+1A6B","U+1A6C","U+1A73","U+1A74","U+1A75","U+1A76","U+1A77","U+1A78","U+1A79","U+1A7A","U+1A7B","U+1A7C","U+1A7F","ᪧ",
       "᪰","᪱","᪲","᪳","᪴","᪵","᪶","᪷","᪸","᪹","᪺","᪻","᪼","᪽",
       "᪾","ᪿ","ᫀ","᫁","᫂","᫃","᫄","᫅","᫆","᫇","᫈","᫉","᫊","᫋",
       "ᫌ","ᫍ","ᫎ","U+1B00","U+1B01","U+1B02","U+1B03","U+1B34","U+1B36","U+1B37","U+1B38","U+1B39","U+1B3A","U+1B3C",
       "U+1B42","U+1B6B","U+1B6C","U+1B6D","U+1B6E","U+1B6F","U+1B70","U+1B71","U+1B72","U+1B73","ᮀ","ᮁ","ᮢ","ᮣ",
       "ᮤ","ᮥ","ᮨ","ᮩ","᮫","ᮬ","ᮭ","᯦","ᯨ","ᯩ","ᯭ","ᯯ","ᯰ","ᯱ",
       "U+1C2C","U+1C2D","U+1C2E","U+1C2F","U+1C30","U+1C31","U+1C32","U+1C33","U+1C36","U+1C37","U+1C78","U+1C79","U+1C7A","U+1C7B",
       "U+1C7C","U+1C7D","᳐","᳑","᳒","᳔","᳕","᳖","᳗","᳘","᳙","᳚","᳛","᳜",
       "᳝","᳞","᳟","᳠","᳢","᳣","᳤","᳥","᳦","᳧","᳨","᳭","᳴","᳸",
       "᳹","U+1D2C","U+1D2D","U+1D2E","U+1D2F","U+1D30","U+1D31","U+1D32","U+1D33","U+1D34","U+1D35","U+1D36","U+1D37","U+1D38",
       "U+1D39","U+1D3A","U+1D3B","U+1D3C","U+1D3D","U+1D3E","U+1D3F","U+1D40","U+1D41","U+1D42","U+1D43","U+1D44","U+1D45","U+1D46",
       "U+1D47","U+1D48","U+1D49","U+1D4A","U+1D4B","U+1D4C","U+1D4D","U+1D4E","U+1D4F","U+1D50","U+1D51","U+1D52","U+1D53","U+1D54",
       "U+1D55","U+1D56","U+1D57","U+1D58","U+1D59","U+1D5A","U+1D5B","U+1D5C","U+1D5D","U+1D5E","U+1D5F","U+1D60","U+1D61","U+1D62",
       "U+1D63","U+1D64","U+1D65","U+1D66","U+1D67","U+1D68","U+1D69","U+1D6A","U+1D78","ᶛ","ᶜ","ᶝ","ᶞ","ᶟ",
       "ᶠ","ᶡ","ᶢ","ᶣ","ᶤ","ᶥ","ᶦ","ᶧ","ᶨ","ᶩ","ᶪ","ᶫ","ᶬ","ᶭ",
       "ᶮ","ᶯ","ᶰ","ᶱ","ᶲ","ᶳ","ᶴ","ᶵ","ᶶ","ᶷ","ᶸ","ᶹ","ᶺ","ᶻ",
       "ᶼ","ᶽ","ᶾ","ᶿ","᷀","᷁","᷂","᷃","᷄","᷅","᷆","᷇","᷈","᷉",
       "᷊","᷋","᷌","᷍","᷎","᷏","᷐","᷑","᷒","ᷓ","ᷔ","ᷕ","ᷖ","ᷗ",
       "ᷘ","ᷙ","ᷚ","ᷛ","ᷜ","ᷝ","ᷞ","ᷟ","ᷠ","ᷡ","ᷢ","ᷣ","ᷤ","ᷥ",
       "ᷦ","ᷧ","ᷨ","ᷩ","ᷪ","ᷫ","ᷬ","ᷭ","ᷮ","ᷯ","ᷰ","ᷱ","ᷲ","ᷳ",
       "ᷴ","᷵","᷶","᷷","᷸","᷹","᷺","᷻","᷼","᷽","᷾","᷿","᾽","᾿",
       "῀","῁","῍","῎","῏","῝","῞","῟","῭","΅","`","´","῾","U+200B",
       "U+200C","U+200D","U+200E","U+200F","U+2018","U+2019","U+2024","U+2027","U+202A","U+202B","U+202C","U+202D","U+202E","U+2060",
       "U+2061","U+2062","U+2063","U+2064","U+2066","U+2067","U+2068","U+2069","U+206A","U+206B","U+206C","U+206D","U+206E","U+206F",
       "U+2071","U+207F","ₐ","ₑ","ₒ","ₓ","ₔ","ₕ","ₖ","ₗ","ₘ","ₙ","ₚ","ₛ",
       "ₜ","⃐","⃑","⃒","⃓","⃔","⃕","⃖","⃗","⃘","⃙","⃚","⃛","⃜",
       "⃝","⃞","⃟","⃠","⃡","⃢","⃣","⃤","⃥","⃦","⃧","⃨","⃩","⃪",
       "⃫","⃬","⃭","⃮","⃯","⃰","U+2C7C","U+2C7D","⳯","⳰","⳱","U+2D6F","U+2D7F","ⷠ",
       "ⷡ","ⷢ","ⷣ","ⷤ","ⷥ","ⷦ","ⷧ","ⷨ","ⷩ","ⷪ","ⷫ","ⷬ","ⷭ","ⷮ",
       "ⷯ","ⷰ","ⷱ","ⷲ","ⷳ","ⷴ","ⷵ","ⷶ","ⷷ","ⷸ","ⷹ","ⷺ","ⷻ","ⷼ",
       "ⷽ","ⷾ","ⷿ","U+2E2F","U+3005","U+302A","U+302B","U+302C","U+302D","U+3031","U+3032","U+3033","U+3034","U+3035",
       "U+303B","゙","゚","゛","゜","ゝ","ゞ","ー","ヽ","ヾ","U+A015","ꓸ","ꓹ","ꓺ",
       "ꓻ","ꓼ","ꓽ","U+A60C","U+A66F","U+A670","U+A671","U+A672","U+A674","U+A675","U+A676","U+A677","U+A678","U+A679",
       "U+A67A","U+A67B","U+A67C","U+A67D","U+A67F","ꚜ","ꚝ","ꚞ","ꚟ","꛰","꛱","U+A700","U+A701","U+A702",
       "U+A703","U+A704","U+A705","U+A706","U+A707","U+A708","U+A709","U+A70A","U+A70B","U+A70C","U+A70D","U+A70E","U+A70F","U+A710",
       "U+A711","U+A712","U+A713","U+A714","U+A715","U+A716","U+A717","U+A718","U+A719","U+A71A","U+A71B","U+A71C","U+A71D","U+A71E",
       "U+A71F","U+A720","U+A721","U+A770","ꞈ","꞉","꞊","ꟲ","ꟳ","ꟴ","ꟸ","ꟹ","U+A802","U+A806",
       "U+A80B","U+A825","U+A826","U+A82C","꣄","ꣅ","꣠","꣡","꣢","꣣","꣤","꣥","꣦","꣧",
       "꣨","꣩","꣪","꣫","꣬","꣭","꣮","꣯","꣰","꣱","ꣿ","U+A926","U+A927","U+A928",
       "U+A929","U+A92A","U+A92B","U+A92C","U+A92D","U+A947","U+A948","U+A949","U+A94A","U+A94B","U+A94C","U+A94D","U+A94E","U+A94F",
       "U+A950","U+A951","ꦀ","ꦁ","ꦂ","꦳","ꦶ","ꦷ","ꦸ","ꦹ","ꦼ","ꦽ","ꧏ","ꧥ",
       "ꧦ","U+AA29","U+AA2A","U+AA2B","U+AA2C","U+AA2D","U+AA2E","U+AA31","U+AA32","U+AA35","U+AA36","U+AA43","U+AA4C","U+AA70",
       "U+AA7C","ꪰ","ꪲ","ꪳ","ꪴ","ꪷ","ꪸ","ꪾ","꪿","꫁","ꫝ","ꫬ","ꫭ","ꫳ",
       "ꫴ","꫶","U+AB5B","U+AB5C","U+AB5D","U+AB5E","U+AB5F","U+AB69","U+AB6A","U+AB6B","ꯥ","ꯨ","꯭","U+FB1E",
       "﮲","﮳","﮴","﮵","﮶","﮷","﮸","﮹","﮺","﮻","﮼","﮽","﮾","﮿",
       "﯀","﯁","﯂","U+FE00","U+FE01","U+FE02","U+FE03","U+FE04","U+FE05","U+FE06","U+FE07","U+FE08","U+FE09","U+FE0A",
       "U+FE0B","U+FE0C","U+FE0D","U+FE0E","U+FE0F","U+FE13","U+FE20","U+FE21","U+FE22","U+FE23","U+FE24","U+FE25","U+FE26","U+FE27",
       "U+FE28","U+FE29","U+FE2A","U+FE2B","U+FE2C","U+FE2D","U+FE2E","U+FE2F","U+FE52","U+FE55","U+FEFF","U+FF07","U+FF0E","U+FF1A",
       "U+FF3E","U+FF40","U+FF70","ﾞ","ﾟ","￣","U+FFF9","U+FFFA","U+FFFB","U+101FD","U+102E0","U+10376","U+10377","U+10378",
       "U+10379","U+1037A","U+10780","U+10781","U+10782","U+10783","U+10784","U+10785","U+10787","U+10788","U+10789","U+1078A","U+1078B","U+1078C",
       "U+1078D","U+1078E","U+1078F","U+10790","U+10791","U+10792","U+10793","U+10794","U+10795","U+10796","U+10797","U+10798","U+10799","U+1079A",
       "U+1079B","U+1079C","U+1079D","U+1079E","U+1079F","U+107A0","U+107A1","U+107A2","U+107A3","U+107A4","U+107A5","U+107A6","U+107A7","U+107A8",
       "U+107A9","U+107AA","U+107AB","U+107AC","U+107AD","U+107AE","U+107AF","U+107B0","U+107B2","U+107B3","U+107B4","U+107B5","U+107B6","U+107B7",
       "U+107B8","U+107B9","U+107BA","U+10A01","U+10A02","U+10A03","U+10A05","U+10A06","U+10A0C","U+10A0D","U+10A0E","U+10A0F","U+10A38","U+10A39",
       "U+10A3A","U+10A3F","U+10AE5","U+10AE6","U+10D24","U+10D25","U+10D26","U+10D27","U+10EAB","U+10EAC","U+10F46","U+10F47","U+10F48","U+10F49",
       "U+10F4A","U+10F4B","U+10F4C","U+10F4D","U+10F4E","U+10F4F","U+10F50","U+10F82","U+10F83","U+10F84","U+10F85","U+11001","U+11038","U+11039",
       "U+1103A","U+1103B","U+1103C","U+1103D","U+1103E","U+1103F","U+11040","U+11041","U+11042","U+11043","U+11044","U+11045","U+11046","U+11070",
       "U+11073","U+11074","U+1107F","U+11080","U+11081","U+110B3","U+110B4","U+110B5","U+110B6","U+110B9","U+110BA","U+110BD","U+110C2","U+110CD",
       "U+11100","U+11101","U+11102","U+11127","U+11128","U+11129","U+1112A","U+1112B","U+1112D","U+1112E","U+1112F","U+11130","U+11131","U+11132",
       "U+11133","U+11134","U+11173","U+11180","U+11181","U+111B6","U+111B7","U+111B8","U+111B9","U+111BA","U+111BB","U+111BC","U+111BD","U+111BE",
       "U+111C9","U+111CA","U+111CB","U+111CC","U+111CF","U+1122F","U+11230","U+11231","U+11234","U+11236","U+11237","U+1123E","U+112DF","U+112E3",
       "U+112E4","U+112E5","U+112E6","U+112E7","U+112E8","U+112E9","U+112EA","U+11300","U+11301","U+1133B","U+1133C","U+11340","U+11366","U+11367",
       "U+11368","U+11369","U+1136A","U+1136B","U+1136C","U+11370","U+11371","U+11372","U+11373","U+11374","U+11438","U+11439","U+1143A","U+1143B",
       "U+1143C","U+1143D","U+1143E","U+1143F","U+11442","U+11443","U+11444","U+11446","U+1145E","U+114B3","U+114B4","U+114B5","U+114B6","U+114B7",
       "U+114B8","U+114BA","U+114BF","U+114C0","U+114C2","U+114C3","U+115B2","U+115B3","U+115B4","U+115B5","U+115BC","U+115BD","U+115BF","U+115C0",
       "U+115DC","U+115DD","U+11633","U+11634","U+11635","U+11636","U+11637","U+11638","U+11639","U+1163A","U+1163D","U+1163F","U+11640","U+116AB",
       "U+116AD","U+116B0","U+116B1","U+116B2","U+116B3","U+116B4","U+116B5","U+116B7","U+1171D","U+1171E","U+1171F","U+11722","U+11723","U+11724",
       "U+11725","U+11727","U+11728","U+11729","U+1172A","U+1172B","U+1182F","U+11830","U+11831","U+11832","U+11833","U+11834","U+11835","U+11836",
       "U+11837","U+11839","U+1183A","U+1193B","U+1193C","U+1193E","U+11943","U+119D4","U+119D5","U+119D6","U+119D7","U+119DA","U+119DB","U+119E0",
       "U+11A01","U+11A02","U+11A03","U+11A04","U+11A05","U+11A06","U+11A07","U+11A08","U+11A09","U+11A0A","U+11A33","U+11A34","U+11A35","U+11A36",
       "U+11A37","U+11A38","U+11A3B","U+11A3C","U+11A3D","U+11A3E","U+11A47","U+11A51","U+11A52","U+11A53","U+11A54","U+11A55","U+11A56","U+11A59",
       "U+11A5A","U+11A5B","U+11A8A","U+11A8B","U+11A8C","U+11A8D","U+11A8E","U+11A8F","U+11A90","U+11A91","U+11A92","U+11A93","U+11A94","U+11A95",
       "U+11A96","U+11A98","U+11A99","U+11C30","U+11C31","U+11C32","U+11C33","U+11C34","U+11C35","U+11C36","U+11C38","U+11C39","U+11C3A","U+11C3B",
       "U+11C3C","U+11C3D","U+11C3F","U+11C92","U+11C93","U+11C94","U+11C95","U+11C96","U+11C97","U+11C98","U+11C99","U+11C9A","U+11C9B","U+11C9C",
       "U+11C9D","U+11C9E","U+11C9F","U+11CA0","U+11CA1","U+11CA2","U+11CA3","U+11CA4","U+11CA5","U+11CA6","U+11CA7","U+11CAA","U+11CAB","U+11CAC",
       "U+11CAD","U+11CAE","U+11CAF","U+11CB0","U+11CB2","U+11CB3","U+11CB5","U+11CB6","U+11D31","U+11D32","U+11D33","U+11D34","U+11D35","U+11D36",
       "U+11D3A","U+11D3C","U+11D3D","U+11D3F","U+11D40","U+11D41","U+11D42","U+11D43","U+11D44","U+11D45","U+11D47","U+11D90","U+11D91","U+11D95",
       "U+11D97","U+11EF3","U+11EF4","U+13430","U+13431","U+13432","U+13433","U+13434","U+13435","U+13436","U+13437","U+13438","U+16AF0","U+16AF1",
       "U+16AF2","U+16AF3","U+16AF4","U+16B30","U+16B31","U+16B32","U+16B33","U+16B34","U+16B35","U+16B36","U+16B40","U+16B41","U+16B42","U+16B43",
       "U+16F4F","U+16F8F","U+16F90","U+16F91","U+16F92","U+16F93","U+16F94","U+16F95","U+16F96","U+16F97","U+16F98","U+16F99","U+16F9A","U+16F9B",
       "U+16F9C","U+16F9D","U+16F9E","U+16F9F","U+16FE0","U+16FE1","U+16FE3","U+16FE4","U+1AFF0","U+1AFF1","U+1AFF2","U+1AFF3","U+1AFF5","U+1AFF6",
       "U+1AFF7","U+1AFF8","U+1AFF9","U+1AFFA","U+1AFFB","U+1AFFD","U+1AFFE","U+1BC9D","U+1BC9E","U+1BCA0","U+1BCA1","U+1BCA2","U+1BCA3","U+1CF00",
       "U+1CF01","U+1CF02","U+1CF03","U+1CF04","U+1CF05","U+1CF06","U+1CF07","U+1CF08","U+1CF09","U+1CF0A","U+1CF0B","U+1CF0C","U+1CF0D","U+1CF0E",
       "U+1CF0F","U+1CF10","U+1CF11","U+1CF12","U+1CF13","U+1CF14","U+1CF15","U+1CF16","U+1CF17","U+1CF18","U+1CF19","U+1CF1A","U+1CF1B","U+1CF1C",
       "U+1CF1D","U+1CF1E","U+1CF1F","U+1CF20","U+1CF21","U+1CF22","U+1CF23","U+1CF24","U+1CF25","U+1CF26","U+1CF27","U+1CF28","U+1CF29","U+1CF2A",
       "U+1CF2B","U+1CF2C","U+1CF2D","U+1CF30","U+1CF31","U+1CF32","U+1CF33","U+1CF34","U+1CF35","U+1CF36","U+1CF37","U+1CF38","U+1CF39","U+1CF3A",
       "U+1CF3B","U+1CF3C","U+1CF3D","U+1CF3E","U+1CF3F","U+1CF40","U+1CF41","U+1CF42","U+1CF43","U+1CF44","U+1CF45","U+1CF46","U+1D167","U+1D168",
       "U+1D169","U+1D173","U+1D174","U+1D175","U+1D176","U+1D177","U+1D178","U+1D179","U+1D17A","U+1D17B","U+1D17C","U+1D17D","U+1D17E","U+1D17F",
       "U+1D180","U+1D181","U+1D182","U+1D185","U+1D186","U+1D187","U+1D188","U+1D189","U+1D18A","U+1D18B","U+1D1AA","U+1D1AB","U+1D1AC","U+1D1AD",
       "U+1D242","U+1D243","U+1D244","U+1DA00","U+1DA01","U+1DA02","U+1DA03","U+1DA04","U+1DA05","U+1DA06","U+1DA07","U+1DA08","U+1DA09","U+1DA0A",
       "U+1DA0B","U+1DA0C","U+1DA0D","U+1DA0E","U+1DA0F","U+1DA10","U+1DA11","U+1DA12","U+1DA13","U+1DA14","U+1DA15","U+1DA16","U+1DA17","U+1DA18",
       "U+1DA19","U+1DA1A","U+1DA1B","U+1DA1C","U+1DA1D","U+1DA1E","U+1DA1F","U+1DA20","U+1DA21","U+1DA22","U+1DA23","U+1DA24","U+1DA25","U+1DA26",
       "U+1DA27","U+1DA28","U+1DA29","U+1DA2A","U+1DA2B","U+1DA2C","U+1DA2D","U+1DA2E","U+1DA2F","U+1DA30","U+1DA31","U+1DA32","U+1DA33","U+1DA34",
       "U+1DA35","U+1DA36","U+1DA3B","U+1DA3C","U+1DA3D","U+1DA3E","U+1DA3F","U+1DA40","U+1DA41","U+1DA42","U+1DA43","U+1DA44","U+1DA45","U+1DA46",
       "U+1DA47","U+1DA48","U+1DA49","U+1DA4A","U+1DA4B","U+1DA4C","U+1DA4D","U+1DA4E","U+1DA4F","U+1DA50","U+1DA51","U+1DA52","U+1DA53","U+1DA54",
       "U+1DA55","U+1DA56","U+1DA57","U+1DA58","U+1DA59","U+1DA5A","U+1DA5B","U+1DA5C","U+1DA5D","U+1DA5E","U+1DA5F","U+1DA60","U+1DA61","U+1DA62",
       "U+1DA63","U+1DA64","U+1DA65","U+1DA66","U+1DA67","U+1DA68","U+1DA69","U+1DA6A","U+1DA6B","U+1DA6C","U+1DA75","U+1DA84","U+1DA9B","U+1DA9C",
       "U+1DA9D","U+1DA9E","U+1DA9F","U+1DAA1","U+1DAA2","U+1DAA3","U+1DAA4","U+1DAA5","U+1DAA6","U+1DAA7","U+1DAA8","U+1DAA9","U+1DAAA","U+1DAAB",
       "U+1DAAC","U+1DAAD","U+1DAAE","U+1DAAF","U+1E000","U+1E001","U+1E002","U+1E003","U+1E004","U+1E005","U+1E006","U+1E008","U+1E009","U+1E00A",
       "U+1E00B","U+1E00C","U+1E00D","U+1E00E","U+1E00F","U+1E010","U+1E011","U+1E012","U+1E013","U+1E014","U+1E015","U+1E016","U+1E017","U+1E018",
       "U+1E01B","U+1E01C","U+1E01D","U+1E01E","U+1E01F","U+1E020","U+1E021","U+1E023","U+1E024","U+1E026","U+1E027","U+1E028","U+1E029","U+1E02A",
       "U+1E130","U+1E131","U+1E132","U+1E133","U+1E134","U+1E135","U+1E136","U+1E137","U+1E138","U+1E139","U+1E13A","U+1E13B","U+1E13C","U+1E13D",
       "U+1E2AE","U+1E2EC","U+1E2ED","U+1E2EE","U+1E2EF","U+1E8D0","U+1E8D1","U+1E8D2","U+1E8D3","U+1E8D4","U+1E8D5","U+1E8D6","U+1E944","U+1E945",
       "U+1E946","U+1E947","U+1E948","U+1E949","U+1E94A","U+1E94B","U+1F3FB","U+1F3FC","U+1F3FD","U+1F3FE","U+1F3FF","U+E0001","U+E0020","U+E0021",
       "U+E0022","U+E0023","U+E0024","U+E0025","U+E0026","U+E0027","U+E0028","U+E0029","U+E002A","U+E002B","U+E002C","U+E002D","U+E002E","U+E002F",
       "U+E0030","U+E0031","U+E0032","U+E0033","U+E0034","U+E0035","U+E0036","U+E0037","U+E0038","U+E0039","U+E003A","U+E003B","U+E003C","U+E003D",
       "U+E003E","U+E003F","U+E0040","U+E0041","U+E0042","U+E0043","U+E0044","U+E0045","U+E0046","U+E0047","U+E0048","U+E0049","U+E004A","U+E004B",
       "U+E004C","U+E004D","U+E004E","U+E004F","U+E0050","U+E0051","U+E0052","U+E0053","U+E0054","U+E0055","U+E0056","U+E0057","U+E0058","U+E0059",
       "U+E005A","U+E005B","U+E005C","U+E005D","U+E005E","U+E005F","U+E0060","U+E0061","U+E0062","U+E0063","U+E0064","U+E0065","U+E0066","U+E0067",
       "U+E0068","U+E0069","U+E006A","U+E006B","U+E006C","U+E006D","U+E006E","U+E006F","U+E0070","U+E0071","U+E0072","U+E0073","U+E0074","U+E0075",
       "U+E0076","U+E0077","U+E0078","U+E0079","U+E007A","U+E007B","U+E007C","U+E007D","U+E007E","U+E007F","U+E0100","U+E0101","U+E0102","U+E0103",
       "U+E0104","U+E0105","U+E0106","U+E0107","U+E0108","U+E0109","U+E010A","U+E010B","U+E010C","U+E010D","U+E010E","U+E010F","U+E0110","U+E0111",
       "U+E0112","U+E0113","U+E0114","U+E0115","U+E0116","U+E0117","U+E0118","U+E0119","U+E011A","U+E011B","U+E011C","U+E011D","U+E011E","U+E011F",
       "U+E0120","U+E0121","U+E0122","U+E0123","U+E0124","U+E0125","U+E0126","U+E0127","U+E0128","U+E0129","U+E012A","U+E012B","U+E012C","U+E012D",
       "U+E012E","U+E012F","U+E0130","U+E0131","U+E0132","U+E0133","U+E0134","U+E0135","U+E0136","U+E0137","U+E0138","U+E0139","U+E013A","U+E013B",
       "U+E013C","U+E013D","U+E013E","U+E013F","U+E0140","U+E0141","U+E0142","U+E0143","U+E0144","U+E0145","U+E0146","U+E0147","U+E0148","U+E0149",
       "U+E014A","U+E014B","U+E014C","U+E014D","U+E014E","U+E014F","U+E0150","U+E0151","U+E0152","U+E0153","U+E0154","U+E0155","U+E0156","U+E0157",
       "U+E0158","U+E0159","U+E015A","U+E015B","U+E015C","U+E015D","U+E015E","U+E015F","U+E0160","U+E0161","U+E0162","U+E0163","U+E0164","U+E0165",
       "U+E0166","U+E0167","U+E0168","U+E0169","U+E016A","U+E016B","U+E016C","U+E016D","U+E016E","U+E016F","U+E0170","U+E0171","U+E0172","U+E0173",
       "U+E0174","U+E0175","U+E0176","U+E0177","U+E0178","U+E0179","U+E017A","U+E017B","U+E017C","U+E017D","U+E017E","U+E017F","U+E0180","U+E0181",
       "U+E0182","U+E0183","U+E0184","U+E0185","U+E0186","U+E0187","U+E0188","U+E0189","U+E018A","U+E018B","U+E018C","U+E018D","U+E018E","U+E018F",
       "U+E0190","U+E0191","U+E0192","U+E0193","U+E0194","U+E0195","U+E0196","U+E0197","U+E0198","U+E0199","U+E019A","U+E019B","U+E019C","U+E019D",
       "U+E019E","U+E019F","U+E01A0","U+E01A1","U+E01A2","U+E01A3","U+E01A4","U+E01A5","U+E01A6","U+E01A7","U+E01A8","U+E01A9","U+E01AA","U+E01AB",
       "U+E01AC","U+E01AD","U+E01AE","U+E01AF","U+E01B0","U+E01B1","U+E01B2","U+E01B3","U+E01B4","U+E01B5","U+E01B6","U+E01B7","U+E01B8","U+E01B9",
       "U+E01BA","U+E01BB","U+E01BC","U+E01BD","U+E01BE","U+E01BF","U+E01C0","U+E01C1","U+E01C2","U+E01C3","U+E01C4","U+E01C5","U+E01C6","U+E01C7",
       "U+E01C8","U+E01C9","U+E01CA","U+E01CB","U+E01CC","U+E01CD","U+E01CE","U+E01CF","U+E01D0","U+E01D1","U+E01D2","U+E01D3","U+E01D4","U+E01D5",
       "U+E01D6","U+E01D7","U+E01D8","U+E01D9","U+E01DA","U+E01DB","U+E01DC","U+E01DD","U+E01DE","U+E01DF","U+E01E0","U+E01E1","U+E01E2","U+E01E3",
       "U+E01E4","U+E01E5","U+E01E6","U+E01E7","U+E01E8","U+E01E9","U+E01EA","U+E01EB","U+E01EC","U+E01ED","U+E01EE","U+E01EF" }

\* the characters the final-sigma rule takes for letters of a word (Cased
\* and not Case_Ignorable)
Cased ==
    { "A","B","C","D","E","F","G","H","I","J","K","L","M","N",
       "O","P","Q","R","S","T","U","V","W","X","Y","Z","a","b",
       "c","d","e","f","g","h","i","j","k","l","m","n","o","p",
       "q","r","s","t","u","v","w","x","y","z","ª","µ","º","À",
       "Á","Â","Ã","Ä","Å","Æ","Ç","È","É","Ê","Ë","Ì","Í","Î",
       "Ï","Ð","Ñ","Ò","Ó","Ô","Õ","Ö","Ø","Ù","Ú","Û","Ü","Ý",
       "Þ","ß","à","á","â","ã","ä","å","æ","ç","è","é","ê","ë",
       "ì","í","î","ï","ð","ñ","ò","ó","ô","õ","ö","ø","ù","ú",
       "û","ü","ý","þ","ÿ","U+0100","U+0101","U+0102","U+0103","U+0104","U+0105","U+0106","U+0107","U+0108",
       "U+0109","U+010A","U+010B","U+010C","U+010D","U+010E","U+010F","U+0110","U+0111","U+0112","U+0113","U+0114","U+0115","U+0116",
       "U+0117","U+0118","U+0119","U+011A","U+011B","U+011C","U+011D","U+011E","U+011F","U+0120","U+0121","U+0122","U+0123","U+0124",
       "U+0125","U+0126","U+0127","U+0128","U+0129","U+012A","U+012B","U+012C","U+012D","U+012E","U+012F","U+0130","U+0131","U+0132",
       "U+0133","U+0134","U+0135","U+0136","U+0137","U+0138","U+0139","U+013A","U+013B","U+013C","U+013D","U+013E","U+013F","U+0140",
       "U+0141","U+0142","U+0143","U+0144","U+0145","U+0146","U+0147","U+0148","U+0149","U+014A","U+014B","U+014C","U+014D","U+014E",
       "U+014F","U+0150","U+0151","U+0152","U+0153","U+0154","U+0155","U+0156","U+0157","U+0158","U+0159","U+015A","U+015B","U+015C",
       "U+015D","U+015E","U+015F","U+0160","U+0161","U+0162","U+0163","U+0164","U+0165","U+0166","U+0167","U+0168","U+0169","U+016A",
       "U+016B","U+016C","U+016D","U+016E","U+016F","U+0170","U+0171","U+0172","U+0173","U+0174","U+0175","U+0176","U+0177","U+0178",
       "U+0179","U+017A","U+017B","U+017C","U+017D","U+017E","U+017F","ƀ","Ɓ","Ƃ","ƃ","Ƅ","ƅ","Ɔ",
       "Ƈ","ƈ","Ɖ","Ɗ","Ƌ","ƌ","ƍ","Ǝ","Ə","Ɛ","Ƒ","ƒ","Ɠ","Ɣ",
       "ƕ","Ɩ","Ɨ","Ƙ","ƙ","ƚ","ƛ","Ɯ","Ɲ","ƞ","Ɵ","Ơ","ơ","Ƣ",
       "ƣ","Ƥ","ƥ","Ʀ","Ƨ","ƨ","Ʃ","ƪ","ƫ","Ƭ","ƭ","Ʈ","Ư","ư",
       "Ʊ","Ʋ","Ƴ","ƴ","Ƶ","ƶ","Ʒ","Ƹ","ƹ","ƺ","Ƽ","ƽ","ƾ","ƿ",
       "Ǆ","ǅ","ǆ","Ǉ","ǈ","ǉ","Ǌ","ǋ","ǌ","Ǎ","ǎ","Ǐ","ǐ","Ǒ",
       "ǒ","Ǔ","ǔ","Ǖ","ǖ","Ǘ","ǘ","Ǚ","ǚ","Ǜ","ǜ","ǝ","Ǟ","ǟ",
       "Ǡ","ǡ","Ǣ","ǣ","Ǥ","ǥ","Ǧ","ǧ","Ǩ","ǩ","Ǫ","ǫ","Ǭ","ǭ",
       "Ǯ","ǯ","ǰ","Ǳ","ǲ","ǳ","Ǵ","ǵ","Ƕ","Ƿ","Ǹ","ǹ","Ǻ","ǻ",
       "Ǽ","ǽ","Ǿ","ǿ","U+0200","U+0201","U+0202","U+0203","U+0204","U+0205","U+0206","U+0207","U+0208","U+0209",
       "U+020A","U+020B","U+020C","U+020D","U+020E","U+020F","U+0210","U+0211","U+0212","U+0213","U+0214","U+0215","U+0216","U+0217",
       "U+0218","U+0219","U+021A","U+021B","U+021C","U+021D","U+021E","U+021F","U+0220","U+0221","U+0222","U+0223","U+0224","U+0225",
       "U+0226","U+0227","U+0228","U+0229","U+022A","U+022B","U+022C","U+022D","U+022E","U+022F","U+0230","U+0231","U+0232","U+0233",
       "U+0234","U+0235","U+0236","U+0237","U+0238","U+0239","U+023A","U+023B","U+023C","U+023D","U+023E","U+023F","U+0240","U+0241",
       "U+0242","U+0243","U+0244","U+0245","U+0246","U+0247","U+0248","U+0249","U+024A","U+024B","U+024C","U+024D","U+024E","U+024F",
       "U+0250","U+0251","U+0252","U+0253","U+0254","U+0255","U+0256","U+0257","U+0258","U+0259","U+025A","U+025B","U+025C","U+025D",
       "U+025E","U+025F","U+0260","U+0261","U+0262","U+0263","U+0264","U+0265","U+0266","U+0267","U+0268","U+0269","U+026A","U+026B",
       "U+026C","U+026D","U+026E","U+026F","U+0270","U+0271","U+0272","U+0273","U+0274","U+0275","U+0276","U+0277","U+0278","U+0279",
       "U+027A","U+027B","U+027C","U+027D","U+027E","U+027F","ʀ","ʁ","ʂ","ʃ","ʄ","ʅ","ʆ","ʇ",
       "ʈ","ʉ","ʊ","ʋ","ʌ","ʍ","ʎ","ʏ","ʐ","ʑ","ʒ","ʓ","ʕ","ʖ",
       "ʗ","ʘ","ʙ","ʚ","ʛ","ʜ","ʝ","ʞ","ʟ","ʠ","ʡ","ʢ","ʣ","ʤ",
       "ʥ","ʦ","ʧ","ʨ","ʩ","ʪ","ʫ","ʬ","ʭ","ʮ","ʯ","U+0370","U+0371","U+0372",
       "U+0373","U+0376","U+0377","U+037B","U+037C","U+037D","U+037F","Ά","Έ","Ή","Ί","Ό","Ύ","Ώ",
       "ΐ","Α","Β","Γ","Δ","Ε","Ζ","Η","Θ","Ι","Κ","Λ","Μ","Ν",
       "Ξ","Ο","Π","Ρ","Σ","Τ","Υ","Φ","Χ","Ψ","Ω","Ϊ","Ϋ","ά",
       "έ","ή","ί","ΰ","α","β","γ","δ","ε","ζ","η","θ","ι","κ",
       "λ","μ","ν","ξ","ο","π","ρ","ς","σ","τ","υ","φ","χ","ψ",
       "ω","ϊ","ϋ","ό","ύ","ώ","Ϗ","ϐ","ϑ","ϒ","ϓ","ϔ","ϕ","ϖ",
       "ϗ","Ϙ","ϙ","Ϛ","ϛ","Ϝ","ϝ","Ϟ","ϟ","Ϡ","ϡ","Ϣ","ϣ","Ϥ",
       "ϥ","Ϧ","ϧ","Ϩ","ϩ","Ϫ","ϫ","Ϭ","ϭ","Ϯ","ϯ","ϰ","ϱ","ϲ",
       "ϳ","ϴ","ϵ","Ϸ","ϸ","Ϲ","Ϻ","ϻ","ϼ","Ͻ","Ͼ","Ͽ","U+0400","U+0401",
       "U+0402","U+0403","U+0404","U+0405","U+0406","U+0407","U+0408","U+0409","U+040A","U+040B","U+040C","U+040D","U+040E","U+040F",
       "U+0410","U+0411","U+0412","U+0413","U+0414","U+0415","U+0416","U+0417","U+0418","U+0419","U+041A","U+041B","U+041C","U+041D",
       "U+041E","U+041F","U+0420","U+0421","U+0422","U+0423","U+0424","U+0425","U+0426","U+0427","U+0428","U+0429","U+042A","U+042B",
       "U+042C","U+042D","U+042E","U+042F","U+0430","U+0431","U+0432","U+0433","U+0434","U+0435","U+0436","U+0437","U+0438","U+0439",
       "U+043A","U+043B","U+043C","U+043D","U+043E","U+043F","U+0440","U+0441","U+0442","U+0443","U+0444","U+0445","U+0446","U+0447",
       "U+0448","U+0449","U+044A","U+044B","U+044C","U+044D","U+044E","U+044F","U+0450","U+0451","U+0452","U+0453","U+0454","U+0455",
       "U+0456","U+0457","U+0458","U+0459","U+045A","U+045B","U+045C","U+045D","U+045E","U+045F","U+0460","U+0461","U+0462","U+0463",
       "U+0464","U+0465","U+0466","U+0467","U+0468","U+0469","U+046A","U+046B","U+046C","U+046D","U+046E","U+046F","U+0470","U+0471",
       "U+0472","U+0473","U+0474","U+0475","U+0476","U+0477","U+0478","U+0479","U+047A","U+047B","U+047C","U+047D","U+047E","U+047F",
       "Ҁ","ҁ","Ҋ","ҋ","Ҍ","ҍ","Ҏ","ҏ","Ґ","ґ","Ғ","ғ","Ҕ","ҕ",
       "Җ","җ","Ҙ","ҙ","Қ","қ","Ҝ","ҝ","Ҟ","ҟ","Ҡ","ҡ","Ң","ң",
       "Ҥ","ҥ","Ҧ","ҧ","Ҩ","ҩ","Ҫ","ҫ","Ҭ","ҭ","Ү","ү","Ұ","ұ",
       "Ҳ","ҳ","Ҵ","ҵ","Ҷ","ҷ","Ҹ","ҹ","Һ","һ","Ҽ","ҽ","Ҿ","ҿ",
       "Ӏ","Ӂ","ӂ","Ӄ","ӄ","Ӆ","ӆ","Ӈ","ӈ","Ӊ","ӊ","Ӌ","ӌ","Ӎ",
       "ӎ","ӏ","Ӑ","ӑ","Ӓ","ӓ","Ӕ","ӕ","Ӗ","ӗ","Ә","ә","Ӛ","ӛ",
       "Ӝ","ӝ","Ӟ","ӟ","Ӡ","ӡ","Ӣ","ӣ","Ӥ","ӥ","Ӧ","ӧ","Ө","ө",
       "Ӫ","ӫ","Ӭ","ӭ","Ӯ","ӯ","Ӱ","ӱ","Ӳ","ӳ","Ӵ","ӵ","Ӷ","ӷ",
       "Ӹ","ӹ","Ӻ","ӻ","Ӽ","ӽ","Ӿ","ӿ","U+0500","U+0501","U+0502","U+0503","U+0504","U+0505",
       "U+0506","U+0507","U+0508","U+0509","U+050A","U+050B","U+050C","U+050D","U+050E","U+050F","U+0510","U+0511","U+0512","U+0513",
       "U+0514","U+0515","U+0516","U+0517","U+0518","U+0519","U+051A","U+051B","U+051C","U+051D","U+051E","U+051F","U+0520","U+0521",
       "U+0522","U+0523","U+0524","U+0525","U+0526","U+0527","U+0528","U+0529","U+052A","U+052B","U+052C","U+052D","U+052E","U+052F",
       "U+0531","U+0532","U+0533","U+0534","U+0535","U+0536","U+0537","U+0538","U+0539","U+053A","U+053B","U+053C","U+053D","U+053E",
       "U+053F","U+0540","U+0541","U+0542","U+0543","U+0544","U+0545","U+0546","U+0547","U+0548","U+0549","U+054A","U+054B","U+054C",
       "U+054D","U+054E","U+054F","U+0550","U+0551","U+0552","U+0553","U+0554","U+0555","U+0556","U+0560","U+0561","U+0562","U+0563",
       "U+0564","U+0565","U+0566","U+0567","U+0568","U+0569","U+056A","U+056B","U+056C","U+056D","U+056E","U+056F","U+0570","U+0571",
       "U+0572","U+0573","U+0574","U+0575","U+0576","U+0577","U+0578","U+0579","U+057A","U+057B","U+057C","U+057D","U+057E","U+057F",
       "ր","ց","ւ","փ","ք","օ","ֆ","և","ֈ","Ⴀ","Ⴁ","Ⴂ","Ⴃ","Ⴄ",
       "Ⴅ","Ⴆ","Ⴇ","Ⴈ","Ⴉ","Ⴊ","Ⴋ","Ⴌ","Ⴍ","Ⴎ","Ⴏ","Ⴐ","Ⴑ","Ⴒ",
       "Ⴓ","Ⴔ","Ⴕ","Ⴖ","Ⴗ","Ⴘ","Ⴙ","Ⴚ","Ⴛ","Ⴜ","Ⴝ","Ⴞ","Ⴟ","Ⴠ",
       "Ⴡ","Ⴢ","Ⴣ","Ⴤ","Ⴥ","Ⴧ","Ⴭ","ა","ბ","გ","დ","ე","ვ","ზ",
       "თ","ი","კ","ლ","მ","ნ","ო","პ","ჟ","რ","ს","ტ","უ","ფ",
       "ქ","ღ","ყ","შ","ჩ","ც","ძ","წ","ჭ","ხ","ჯ","ჰ","ჱ","ჲ",
       "ჳ","ჴ","ჵ","ჶ","ჷ","ჸ","ჹ","ჺ","ჽ","ჾ","ჿ","Ꭰ","Ꭱ","Ꭲ",
       "Ꭳ","Ꭴ","Ꭵ","Ꭶ","Ꭷ","Ꭸ","Ꭹ","Ꭺ","Ꭻ","Ꭼ","Ꭽ","Ꭾ","Ꭿ","Ꮀ",
       "Ꮁ","Ꮂ","Ꮃ","Ꮄ","Ꮅ","Ꮆ","Ꮇ","Ꮈ","Ꮉ","Ꮊ","Ꮋ","Ꮌ","Ꮍ","Ꮎ",
       "Ꮏ","Ꮐ","Ꮑ","Ꮒ","Ꮓ","Ꮔ","Ꮕ","Ꮖ","Ꮗ","Ꮘ","Ꮙ","Ꮚ","Ꮛ","Ꮜ",
       "Ꮝ","Ꮞ","Ꮟ","Ꮠ","Ꮡ","Ꮢ","Ꮣ","Ꮤ","Ꮥ","Ꮦ","Ꮧ","Ꮨ","Ꮩ","Ꮪ",
       "Ꮫ","Ꮬ","Ꮭ","Ꮮ","Ꮯ","Ꮰ","Ꮱ","Ꮲ","Ꮳ","Ꮴ","Ꮵ","Ꮶ","Ꮷ","Ꮸ",
       "Ꮹ","Ꮺ","Ꮻ","Ꮼ","Ꮽ","Ꮾ","Ꮿ","Ᏸ","Ᏹ","Ᏺ","Ᏻ","Ᏼ","Ᏽ","ᏸ",
       "ᏹ","ᏺ","ᏻ","ᏼ","ᏽ","ᲀ","ᲁ","ᲂ","ᲃ","ᲄ","ᲅ","ᲆ","ᲇ","ᲈ",
       "Ა","Ბ","Გ","Დ","Ე","Ვ","Ზ","Თ","Ი","Კ","Ლ","Მ","Ნ","Ო",
       "Პ","Ჟ","Რ","Ს","Ტ","Უ","Ფ","Ქ","Ღ","Ყ","Შ","Ჩ","Ც","Ძ",
       "Წ","Ჭ","Ხ","Ჯ","Ჰ","Ჱ","Ჲ","Ჳ","Ჴ","Ჵ","Ჶ","Ჷ","Ჸ","Ჹ",
       "Ჺ","Ჽ","Ჾ","Ჿ","U+1D00","U+1D01","U+1D02","U+1D03","U+1D04","U+1D05","U+1D06","U+1D07","U+1D08","U+1D09",
       "U+1D0A","U+1D0B","U+1D0C","U+1D0D","U+1D0E","U+1D0F","U+1D10","U+1D11","U+1D12","U+1D13","U+1D14","U+1D15","U+1D16","U+1D17",
       "U+1D18","U+1D19","U+1D1A","U+1D1B","U+1D1C","U+1D1D","U+1D1E","U+1D1F","U+1D20","U+1D21","U+1D22","U+1D23","U+1D24","U+1D25",
       "U+1D26","U+1D27","U+1D28","U+1D29","U+1D2A","U+1D2B","U+1D6B","U+1D6C","U+1D6D","U+1D6E","U+1D6F","U+1D70","U+1D71","U+1D72",
       "U+1D73","U+1D74","U+1D75","U+1D76","U+1D77","U+1D79","U+1D7A","U+1D7B","U+1D7C","U+1D7D","U+1D7E","U+1D7F","ᶀ","ᶁ",
       "ᶂ","ᶃ","ᶄ","ᶅ","ᶆ","ᶇ","ᶈ","ᶉ","ᶊ","ᶋ","ᶌ","ᶍ","ᶎ","ᶏ",
       "ᶐ","ᶑ","ᶒ","ᶓ","ᶔ","ᶕ","ᶖ","ᶗ","ᶘ","ᶙ","ᶚ","U+1E00","U+1E01","U+1E02",
       "U+1E03","U+1E04","U+1E05","U+1E06","U+1E07","U+1E08","U+1E09","U+1E0A","U+1E0B","U+1E0C","U+1E0D","U+1E0E","U+1E0F","U+1E10",
       "U+1E11","U+1E12","U+1E13","U+1E14","U+1E15","U+1E16","U+1E17","U+1E18","U+1E19","U+1E1A","U+1E1B","U+1E1C","U+1E1D","U+1E1E",
       "U+1E1F","U+1E20","U+1E21","U+1E22","U+1E23","U+1E24","U+1E25","U+1E26","U+1E27","U+1E28","U+1E29","U+1E2A","U+1E2B","U+1E2C",
       "U+1E2D","U+1E2E","U+1E2F","U+1E30","U+1E31","U+1E32","U+1E33","U+1E34","U+1E35","U+1E36","U+1E37","U+1E38","U+1E39","U+1E3A",
       "U+1E3B","U+1E3C","U+1E3D","U+1E3E","U+1E3F","U+1E40","U+1E41","U+1E42","U+1E43","U+1E44","U+1E45","U+1E46","U+1E47","U+1E48",
       "U+1E49","U+1E4A","U+1E4B","U+1E4C","U+1E4D","U+1E4E","U+1E4F","U+1E50","U+1E51","U+1E52","U+1E53","U+1E54","U+1E55","U+1E56",
       "U+1E57","U+1E58","U+1E59","U+1E5A","U+1E5B","U+1E5C","U+1E5D","U+1E5E","U+1E5F","U+1E60","U+1E61","U+1E62","U+1E63","U+1E64",
       "U+1E65","U+1E66","U+1E67","U+1E68","U+1E69","U+1E6A","U+1E6B","U+1E6C","U+1E6D","U+1E6E","U+1E6F","U+1E70","U+1E71","U+1E72",
       "U+1E73","U+1E74","U+1E75","U+1E76","U+1E77","U+1E78","U+1E79","U+1E7A","U+1E7B","U+1E7C","U+1E7D","U+1E7E","U+1E7F","Ẁ",
       "ẁ","Ẃ","ẃ","Ẅ","ẅ","Ẇ","ẇ","Ẉ","ẉ","Ẋ","ẋ","Ẍ","ẍ","Ẏ",
       "ẏ","Ẑ","ẑ","Ẓ","ẓ","Ẕ","ẕ","ẖ","ẗ","ẘ","ẙ","ẚ","ẛ","ẜ",
       "ẝ","ẞ","ẟ","Ạ","ạ","Ả","ả","Ấ","ấ","Ầ","ầ","Ẩ","ẩ","Ẫ",
       "ẫ","Ậ","ậ","Ắ","ắ","Ằ","ằ","Ẳ","ẳ","Ẵ","ẵ","Ặ","ặ","Ẹ",
       "ẹ","Ẻ","ẻ","Ẽ","ẽ","Ế","ế","Ề","ề","Ể","ể","Ễ","ễ","Ệ",
       "ệ","Ỉ","ỉ","Ị","ị","Ọ","ọ","Ỏ","ỏ","Ố","ố","Ồ","ồ","Ổ",
       "ổ","Ỗ","ỗ","Ộ","ộ","Ớ","ớ","Ờ","ờ","Ở","ở","Ỡ","ỡ","Ợ",
       "ợ","Ụ","ụ","Ủ","ủ","Ứ","ứ","Ừ","ừ","Ử","ử","Ữ","ữ","Ự",
       "ự","Ỳ","ỳ","Ỵ","ỵ","Ỷ","ỷ","Ỹ","ỹ","Ỻ","ỻ","Ỽ","ỽ","Ỿ",
       "ỿ","U+1F00","U+1F01","U+1F02","U+1F03","U+1F04","U+1F05","U+1F06","U+1F07","U+1F08","U+1F09","U+1F0A","U+1F0B","U+1F0C",
       "U+1F0D","U+1F0E","U+1F0F","U+1F10","U+1F11","U+1F12","U+1F13","U+1F14","U+1F15","U+1F18","U+1F19","U+1F1A","U+1F1B","U+1F1C",
       "U+1F1D","U+1F20","U+1F21","U+1F22","U+1F23","U+1F24","U+1F25","U+1F26","U+1F27","U+1F28","U+1F29","U+1F2A","U+1F2B","U+1F2C",
       "U+1F2D","U+1F2E","U+1F2F","U+1F30","U+1F31","U+1F32","U+1F33","U+1F34","U+1F35","U+1F36","U+1F37","U+1F38","U+1F39","U+1F3A",
       "U+1F3B","U+1F3C","U+1F3D","U+1F3E","U+1F3F","U+1F40","U+1F41","U+1F42","U+1F43","U+1F44","U+1F45","U+1F48","U+1F49","U+1F4A",
       "U+1F4B","U+1F4C","U+1F4D","U+1F50","U+1F51","U+1F52","U+1F53","U+1F54","U+1F55","U+1F56","U+1F57","U+1F59","U+1F5B","U+1F5D",
       "U+1F5F","U+1F60","U+1F61","U+1F62","U+1F63","U+1F64","U+1F65","U+1F66","U+1F67","U+1F68","U+1F69","U+1F6A","U+1F6B","U+1F6C",
       "U+1F6D","U+1F6E","U+1F6F","U+1F70","U+1F71","U+1F72","U+1F73","U+1F74","U+1F75","U+1F76","U+1F77","U+1F78","U+1F79","U+1F7A",
       "U+1F7B","U+1F7C","U+1F7D","ᾀ","ᾁ","ᾂ","ᾃ","ᾄ","ᾅ","ᾆ","ᾇ","ᾈ","ᾉ","ᾊ",
       "ᾋ","ᾌ","ᾍ","ᾎ","ᾏ","ᾐ","ᾑ","ᾒ","ᾓ","ᾔ","ᾕ","ᾖ","ᾗ","ᾘ",
       "ᾙ","ᾚ","ᾛ","ᾜ","ᾝ","ᾞ","ᾟ","ᾠ","ᾡ","ᾢ","ᾣ","ᾤ","ᾥ","ᾦ",
       "ᾧ","ᾨ","ᾩ","ᾪ","ᾫ","ᾬ","ᾭ","ᾮ","ᾯ","ᾰ","ᾱ","ᾲ","ᾳ","ᾴ",
       "ᾶ","ᾷ","Ᾰ","Ᾱ","Ὰ","Ά","ᾼ","ι","ῂ","ῃ","ῄ","ῆ","ῇ","Ὲ",
       "Έ","Ὴ","Ή","ῌ","ῐ","ῑ","ῒ","ΐ","ῖ","ῗ","Ῐ","Ῑ","Ὶ","Ί",
       "ῠ","ῡ","ῢ","ΰ","ῤ","ῥ","ῦ","ῧ","Ῠ","Ῡ","Ὺ","Ύ","Ῥ","ῲ",
       "ῳ","ῴ","ῶ","ῷ","Ὸ","Ό","Ὼ","Ώ","ῼ","U+2102","U+2107","U+210A","U+210B","U+210C",
       "U+210D","U+210E","U+210F","U+2110","U+2111","U+2112","U+2113","U+2115","U+2119","U+211A","U+211B","U+211C","U+211D","U+2124",
       "U+2126","U+2128","U+212A","U+212B","U+212C","U+212D","U+212F","U+2130","U+2131","U+2132","U+2133","U+2134","U+2139","U+213C",
       "U+213D","U+213E","U+213F","U+2145","U+2146","U+2147","U+2148","U+2149","U+214E","U+2160","U+2161","U+2162","U+2163","U+2164",
       "U+2165","U+2166","U+2167","U+2168","U+2169","U+216A","U+216B","U+216C","U+216D","U+216E","U+216F","U+2170","U+2171","U+2172",
       "U+2173","U+2174","U+2175","U+2176","U+2177","U+2178","U+2179","U+217A","U+217B","U+217C","U+217D","U+217E","U+217F","Ↄ",
       "ↄ","Ⓐ","Ⓑ","Ⓒ","Ⓓ","Ⓔ","Ⓕ","Ⓖ","Ⓗ","Ⓘ","Ⓙ","Ⓚ","Ⓛ","Ⓜ",
       "Ⓝ","Ⓞ","Ⓟ","Ⓠ","Ⓡ","Ⓢ","Ⓣ","Ⓤ","Ⓥ","Ⓦ","Ⓧ","Ⓨ","Ⓩ","ⓐ",
       "ⓑ","ⓒ","ⓓ","ⓔ","ⓕ","ⓖ","ⓗ","ⓘ","ⓙ","ⓚ","ⓛ","ⓜ","ⓝ","ⓞ",
       "ⓟ","ⓠ","ⓡ","ⓢ","ⓣ","ⓤ","ⓥ","ⓦ","ⓧ","ⓨ","ⓩ","U+2C00","U+2C01","U+2C02",
       "U+2C03","U+2C04","U+2C05","U+2C06","U+2C07","U+2C08","U+2C09","U+2C0A","U+2C0B","U+2C0C","U+2C0D","U+2C0E","U+2C0F","U+2C10",
       "U+2C11","U+2C12","U+2C13","U+2C14","U+2C15","U+2C16","U+2C17","U+2C18","U+2C19","U+2C1A","U+2C1B","U+2C1C","U+2C1D","U+2C1E",
       "U+2C1F","U+2C20","U+2C21","U+2C22","U+2C23","U+2C24","U+2C25","U+2C26","U+2C27","U+2C28","U+2C29","U+2C2A","U+2C2B","U+2C2C",
       "U+2C2D","U+2C2E","U+2C2F","U+2C30","U+2C31","U+2C32","U+2C33","U+2C34","U+2C35","U+2C36","U+2C37","U+2C38","U+2C39","U+2C3A",
       "U+2C3B","U+2C3C","U+2C3D","U+2C3E","U+2C3F","U+2C40","U+2C41","U+2C42","U+2C43","U+2C44","U+2C45","U+2C46","U+2C47","U+2C48",
       "U+2C49","U+2C4A","U+2C4B","U+2C4C","U+2C4D","U+2C4E","U+2C4F","U+2C50","U+2C51","U+2C52","U+2C53","U+2C54","U+2C55","U+2C56",
       "U+2C57","U+2C58","U+2C59","U+2C5A","U+2C5B","U+2C5C","U+2C5D","U+2C5E","U+2C5F","U+2C60","U+2C61","U+2C62","U+2C63","U+2C64",
       "U+2C65","U+2C66","U+2C67","U+2C68","U+2C69","U+2C6A","U+2C6B","U+2C6C","U+2C6D","U+2C6E","U+2C6F","U+2C70","U+2C71","U+2C72",
       "U+2C73","U+2C74","U+2C75","U+2C76","U+2C77","U+2C78","U+2C79","U+2C7A","U+2C7B","U+2C7E","U+2C7F","Ⲁ","ⲁ","Ⲃ",
       "ⲃ","Ⲅ","ⲅ","Ⲇ","ⲇ","Ⲉ","ⲉ","Ⲋ","ⲋ","Ⲍ","ⲍ","Ⲏ","ⲏ","Ⲑ",
       "ⲑ","Ⲓ","ⲓ","Ⲕ","ⲕ","Ⲗ","ⲗ","Ⲙ","ⲙ","Ⲛ","ⲛ","Ⲝ","ⲝ","Ⲟ",
       "ⲟ","Ⲡ","ⲡ","Ⲣ","ⲣ","Ⲥ","ⲥ","Ⲧ","ⲧ","Ⲩ","ⲩ","Ⲫ","ⲫ","Ⲭ",
       "ⲭ","Ⲯ","ⲯ","Ⲱ","ⲱ","Ⲳ","ⲳ","Ⲵ","ⲵ","Ⲷ","ⲷ","Ⲹ","ⲹ","Ⲻ",
       "ⲻ","Ⲽ","ⲽ","Ⲿ","ⲿ","Ⳁ","ⳁ","Ⳃ","ⳃ","Ⳅ","ⳅ","Ⳇ","ⳇ","Ⳉ",
       "ⳉ","Ⳋ","ⳋ","Ⳍ","ⳍ","Ⳏ","ⳏ","Ⳑ","ⳑ","Ⳓ","ⳓ","Ⳕ","ⳕ","Ⳗ",
       "ⳗ","Ⳙ","ⳙ","Ⳛ","ⳛ","Ⳝ","ⳝ","Ⳟ","ⳟ","Ⳡ","ⳡ","Ⳣ","ⳣ","ⳤ",
       "Ⳬ","ⳬ","Ⳮ","ⳮ","Ⳳ","ⳳ","U+2D00","U+2D01","U+2D02","U+2D03","U+2D04","U+2D05","U+2D06","U+2D07",
       "U+2D08","U+2D09","U+2D0A","U+2D0B","U+2D0C","U+2D0D","U+2D0E","U+2D0F","U+2D10","U+2D11","U+2D12","U+2D13","U+2D14","U+2D15",
       "U+2D16","U+2D17","U+2D18","U+2D19","U+2D1A","U+2D1B","U+2D1C","U+2D1D","U+2D1E","U+2D1F","U+2D20","U+2D21","U+2D22","U+2D23",
       "U+2D24","U+2D25","U+2D27","U+2D2D","U+A640","U+A641","U+A642","U+A643","U+A644","U+A645","U+A646","U+A647","U+A648","U+A649",
       "U+A64A","U+A64B","U+A64C","U+A64D","U+A64E","U+A64F","U+A650","U+A651","U+A652","U+A653","U+A654","U+A655","U+A656","U+A657",
       "U+A658","U+A659","U+A65A","U+A65B","U+A65C","U+A65D","U+A65E","U+A65F","U+A660","U+A661","U+A662","U+A663","U+A664","U+A665",
       "U+A666","U+A667","U+A668","U+A669","U+A66A","U+A66B","U+A66C","U+A66D","Ꚁ","ꚁ","Ꚃ","ꚃ","Ꚅ","ꚅ",
       "Ꚇ","ꚇ","Ꚉ","ꚉ","Ꚋ","ꚋ","Ꚍ","ꚍ","Ꚏ","ꚏ","Ꚑ","ꚑ","Ꚓ","ꚓ",
       "Ꚕ","ꚕ","Ꚗ","ꚗ","Ꚙ","ꚙ","Ꚛ","ꚛ","U+A722","U+A723","U+A724","U+A725","U+A726","U+A727",
       "U+A728","U+A729","U+A72A","U+A72B","U+A72C","U+A72D","U+A72E","U+A72F","U+A730","U+A731","U+A732","U+A733","U+A734","U+A735",
       "U+A736","U+A737","U+A738","U+A739","U+A73A","U+A73B","U+A73C","U+A73D","U+A73E","U+A73F","U+A740","U+A741","U+A742","U+A743",
       "U+A744","U+A745","U+A746","U+A747","U+A748","U+A749","U+A74A","U+A74B","U+A74C","U+A74D","U+A74E","U+A74F","U+A750","U+A751",
       "U+A752","U+A753","U+A754","U+A755","U+A756","U+A757","U+A758","U+A759","U+A75A","U+A75B","U+A75C","U+A75D","U+A75E","U+A75F",
       "U+A760","U+A761","U+A762","U+A763","U+A764","U+A765","U+A766","U+A767","U+A768","U+A769","U+A76A","U+A76B","U+A76C","U+A76D",
       "U+A76E","U+A76F","U+A771","U+A772","U+A773","U+A774","U+A775","U+A776","U+A777","U+A778","U+A779","U+A77A","U+A77B","U+A77C",
       "U+A77D","U+A77E","U+A77F","Ꞁ","ꞁ","Ꞃ","ꞃ","Ꞅ","ꞅ","Ꞇ","ꞇ","Ꞌ","ꞌ","Ɥ",
       "ꞎ","Ꞑ","ꞑ","Ꞓ","ꞓ","ꞔ","ꞕ","Ꞗ","ꞗ","Ꞙ","ꞙ","Ꞛ","ꞛ","Ꞝ",
       "ꞝ","Ꞟ","ꞟ","Ꞡ","ꞡ","Ꞣ","ꞣ","Ꞥ","ꞥ","Ꞧ","ꞧ","Ꞩ","ꞩ","Ɦ",
       "Ɜ","Ɡ","Ɬ","Ɪ","ꞯ","Ʞ","Ʇ","Ʝ","Ꭓ","Ꞵ","ꞵ","Ꞷ","ꞷ","Ꞹ",
       "ꞹ","Ꞻ","ꞻ","Ꞽ","ꞽ","Ꞿ","ꞿ","Ꟁ","ꟁ","Ꟃ","ꟃ","Ꞔ","Ʂ","Ᶎ",
       "Ꟈ","ꟈ","Ꟊ","ꟊ","Ꟑ","ꟑ","ꟓ","ꟕ","Ꟗ","ꟗ","Ꟙ","ꟙ","Ꟶ","ꟶ",
       "ꟺ","U+AB30","U+AB31","U+AB32","U+AB33","U+AB34","U+AB35","U+AB36","U+AB37","U+AB38","U+AB39","U+AB3A","U+AB3B","U+AB3C",
       "U+AB3D","U+AB3E","U+AB3F","U+AB40","U+AB41","U+AB42","U+AB43","U+AB44","U+AB45","U+AB46","U+AB47","U+AB48","U+AB49","U+AB4A",
       "U+AB4B","U+AB4C","U+AB4D","U+AB4E","U+AB4F","U+AB50","U+AB51","U+AB52","U+AB53","U+AB54","U+AB55","U+AB56","U+AB57","U+AB58",
       "U+AB59","U+AB5A","U+AB60","U+AB61","U+AB62","U+AB63","U+AB64","U+AB65","U+AB66","U+AB67","U+AB68","U+AB70","U+AB71","U+AB72",
       "U+AB73","U+AB74","U+AB75","U+AB76","U+AB77","U+AB78","U+AB79","U+AB7A","U+AB7B","U+AB7C","U+AB7D","U+AB7E","U+AB7F","ꮀ",
       "ꮁ","ꮂ","ꮃ","ꮄ","ꮅ","ꮆ","ꮇ","ꮈ","ꮉ","ꮊ","ꮋ","ꮌ","ꮍ","ꮎ",
       "ꮏ","ꮐ","ꮑ","ꮒ","ꮓ","ꮔ","ꮕ","ꮖ","ꮗ","ꮘ","ꮙ","ꮚ","ꮛ","ꮜ",
       "ꮝ","ꮞ","ꮟ","ꮠ","ꮡ","ꮢ","ꮣ","ꮤ","ꮥ","ꮦ","ꮧ","ꮨ","ꮩ","ꮪ",
       "ꮫ","ꮬ","ꮭ","ꮮ","ꮯ","ꮰ","ꮱ","ꮲ","ꮳ","ꮴ","ꮵ","ꮶ","ꮷ","ꮸ",
       "ꮹ","ꮺ","ꮻ","ꮼ","ꮽ","ꮾ","ꮿ","U+FB00","U+FB01","U+FB02","U+FB03","U+FB04","U+FB05","U+FB06",
       "U+FB13","U+FB14","U+FB15","U+FB16","U+FB17","U+FF21","U+FF22","U+FF23","U+FF24","U+FF25","U+FF26","U+FF27","U+FF28","U+FF29",
       "U+FF2A","U+FF2B","U+FF2C","U+FF2D","U+FF2E","U+FF2F","U+FF30","U+FF31","U+FF32","U+FF33","U+FF34","U+FF35","U+FF36","U+FF37",
       "U+FF38","U+FF39","U+FF3A","U+FF41","U+FF42","U+FF43","U+FF44","U+FF45","U+FF46","U+FF47","U+FF48","U+FF49","U+FF4A","U+FF4B",
       "U+FF4C","U+FF4D","U+FF4E","U+FF4F","U+FF50","U+FF51","U+FF52","U+FF53","U+FF54","U+FF55","U+FF56","U+FF57","U+FF58","U+FF59",
       "U+FF5A","U+10400","U+10401","U+10402","U+10403","U+10404","U+10405","U+10406","U+10407","U+10408","U+10409","U+1040A","U+1040B","U+1040C",
       "U+1040D","U+1040E","U+1040F","U+10410","U+10411","U+10412","U+10413","U+10414","U+10415","U+10416","U+10417","U+10418","U+10419","U+1041A",
       "U+1041B","U+1041C","U+1041D","U+1041E","U+1041F","U+10420","U+10421","U+10422","U+10423","U+10424","U+10425","U+10426","U+10427","U+10428",
       "U+10429","U+1042A","U+1042B","U+1042C","U+1042D","U+1042E","U+1042F","U+10430","U+10431","U+10432","U+10433","U+10434","U+10435","U+10436",
       "U+10437","U+10438","U+10439","U+1043A","U+1043B","U+1043C","U+1043D","U+1043E","U+1043F","U+10440","U+10441","U+10442","U+10443","U+10444",
       "U+10445","U+10446","U+10447","U+10448","U+10449","U+1044A","U+1044B","U+1044C","U+1044D","U+1044E","U+1044F","U+104B0","U+104B1","U+104B2",
       "U+104B3","U+104B4","U+104B5","U+104B6","U+104B7","U+104B8","U+104B9","U+104BA","U+104BB","U+104BC","U+104BD","U+104BE","U+104BF","U+104C0",
       "U+104C1","U+104C2","U+104C3","U+104C4","U+104C5","U+104C6","U+104C7","U+104C8","U+104C9","U+104CA","U+104CB","U+104CC","U+104CD","U+104CE",
       "U+104CF","U+104D0","U+104D1","U+104D2","U+104D3","U+104D8","U+104D9","U+104DA","U+104DB","U+104DC","U+104DD","U+104DE","U+104DF","U+104E0",
       "U+104E1","U+104E2","U+104E3","U+104E4","U+104E5","U+104E6","U+104E7","U+104E8","U+104E9","U+104EA","U+104EB","U+104EC","U+104ED","U+104EE",
       "U+104EF","U+104F0","U+104F1","U+104F2","U+104F3","U+104F4","U+104F5","U+104F6","U+104F7","U+104F8","U+104F9","U+104FA","U+104FB","U+10570",
       "U+10571","U+10572","U+10573","U+10574","U+10575","U+10576","U+10577","U+10578","U+10579","U+1057A","U+1057C","U+1057D","U+1057E","U+1057F",
       "U+10580","U+10581","U+10582","U+10583","U+10584","U+10585","U+10586","U+10587","U+10588","U+10589","U+1058A","U+1058C","U+1058D","U+1058E",
       "U+1058F","U+10590","U+10591","U+10592","U+10594","U+10595","U+10597","U+10598","U+10599","U+1059A","U+1059B","U+1059C","U+1059D","U+1059E",
       "U+1059F","U+105A0","U+105A1","U+105A3","U+105A4","U+105A5","U+105A6","U+105A7","U+105A8","U+105A9","U+105AA","U+105AB","U+105AC","U+105AD",
       "U+105AE","U+105AF","U+105B0","U+105B1","U+105B3","U+105B4","U+105B5","U+105B6","U+105B7","U+105B8","U+105B9","U+105BB","U+105BC","U+10C80",
       "U+10C81","U+10C82","U+10C83","U+10C84","U+10C85","U+10C86","U+10C87","U+10C88","U+10C89","U+10C8A","U+10C8B","U+10C8C","U+10C8D","U+10C8E",
       "U+10C8F","U+10C90","U+10C91","U+10C92","U+10C93","U+10C94","U+10C95","U+10C96","U+10C97","U+10C98","U+10C99","U+10C9A","U+10C9B","U+10C9C",
       "U+10C9D","U+10C9E","U+10C9F","U+10CA0","U+10CA1","U+10CA2","U+10CA3","U+10CA4","U+10CA5","U+10CA6","U+10CA7","U+10CA8","U+10CA9","U+10CAA",
       "U+10CAB","U+10CAC","U+10CAD","U+10CAE","U+10CAF","U+10CB0","U+10CB1","U+10CB2","U+10CC0","U+10CC1","U+10CC2","U+10CC3","U+10CC4","U+10CC5",
       "U+10CC6","U+10CC7","U+10CC8","U+10CC9","U+10CCA","U+10CCB","U+10CCC","U+10CCD","U+10CCE","U+10CCF","U+10CD0","U+10CD1","U+10CD2","U+10CD3",
       "U+10CD4","U+10CD5","U+10CD6","U+10CD7","U+10CD8","U+10CD9","U+10CDA","U+10CDB","U+10CDC","U+10CDD","U+10CDE","U+10CDF","U+10CE0","U+10CE1",
       "U+10CE2","U+10CE3","U+10CE4","U+10CE5","U+10CE6","U+10CE7","U+10CE8","U+10CE9","U+10CEA","U+10CEB","U+10CEC","U+10CED","U+10CEE","U+10CEF",
       "U+10CF0","U+10CF1","U+10CF2","U+118A0","U+118A1","U+118A2","U+118A3","U+118A4","U+118A5","U+118A6","U+118A7","U+118A8","U+118A9","U+118AA",
       "U+118AB","U+118AC","U+118AD","U+118AE","U+118AF","U+118B0","U+118B1","U+118B2","U+118B3","U+118B4","U+118B5","U+118B6","U+118B7","U+118B8",
       "U+118B9","U+118BA","U+118BB","U+118BC","U+118BD","U+118BE","U+118BF","U+118C0","U+118C1","U+118C2","U+118C3","U+118C4","U+118C5","U+118C6",
       "U+118C7","U+118C8","U+118C9","U+118CA","U+118CB","U+118CC","U+118CD","U+118CE","U+118CF","U+118D0","U+118D1","U+118D2","U+118D3","U+118D4",
       "U+118D5","U+118D6","U+118D7","U+118D8","U+118D9","U+118DA","U+118DB","U+118DC","U+118DD","U+118DE","U+118DF","U+16E40","U+16E41","U+16E42",
       "U+16E43","U+16E44","U+16E45","U+16E46","U+16E47","U+16E48","U+16E49","U+16E4A","U+16E4B","U+16E4C","U+16E4D","U+16E4E","U+16E4F","U+16E50",
       "U+16E51","U+16E52","U+16E53","U+16E54","U+16E55","U+16E56","U+16E57","U+16E58","U+16E59","U+16E5A","U+16E5B","U+16E5C","U+16E5D","U+16E5E",
       "U+16E5F","U+16E60","U+16E61","U+16E62","U+16E63","U+16E64","U+16E65","U+16E66","U+16E67","U+16E68","U+16E69","U+16E6A","U+16E6B","U+16E6C",
       "U+16E6D","U+16E6E","U+16E6F","U+16E70","U+16E71","U+16E72","U+16E73","U+16E74","U+16E75","U+16E76","U+16E77","U+16E78","U+16E79","U+16E7A",
       "U+16E7B","U+16E7C","U+16E7D","U+16E7E","U+16E7F","U+1D400","U+1D401","U+1D402","U+1D403","U+1D404","U+1D405","U+1D406","U+1D407","U+1D408",
       "U+1D409","U+1D40A","U+1D40B","U+1D40C","U+1D40D","U+1D40E","U+1D40F","U+1D410","U+1D411","U+1D412","U+1D413","U+1D414","U+1D415","U+1D416",
       "U+1D417","U+1D418","U+1D419","U+1D41A","U+1D41B","U+1D41C","U+1D41D","U+1D41E","U+1D41F","U+1D420","U+1D421","U+1D422","U+1D423","U+1D424",
       "U+1D425","U+1D426","U+1D427","U+1D428","U+1D429","U+1D42A","U+1D42B","U+1D42C","U+1D42D","U+1D42E","U+1D42F","U+1D430","U+1D431","U+1D432",
       "U+1D433","U+1D434","U+1D435","U+1D436","U+1D437","U+1D438","U+1D439","U+1D43A","U+1D43B","U+1D43C","U+1D43D","U+1D43E","U+1D43F","U+1D440",
       "U+1D441","U+1D442","U+1D443","U+1D444","U+1D445","U+1D446","U+1D447","U+1D448","U+1D449","U+1D44A","U+1D44B","U+1D44C","U+1D44D","U+1D44E",
       "U+1D44F","U+1D450","U+1D451","U+1D452","U+1D453","U+1D454","U+1D456","U+1D457","U+1D458","U+1D459","U+1D45A","U+1D45B","U+1D45C","U+1D45D",
       "U+1D45E","U+1D45F","U+1D460","U+1D461","U+1D462","U+1D463","U+1D464","U+1D465","U+1D466","U+1D467","U+1D468","U+1D469","U+1D46A","U+1D46B",
       "U+1D46C","U+1D46D","U+1D46E","U+1D46F","U+1D470","U+1D471","U+1D472","U+1D473","U+1D474","U+1D475","U+1D476","U+1D477","U+1D478","U+1D479",
       "U+1D47A","U+1D47B","U+1D47C","U+1D47D","U+1D47E","U+1D47F","U+1D480","U+1D481","U+1D482","U+1D483","U+1D484","U+1D485","U+1D486","U+1D487",
       "U+1D488","U+1D489","U+1D48A","U+1D48B","U+1D48C","U+1D48D","U+1D48E","U+1D48F","U+1D490","U+1D491","U+1D492","U+1D493","U+1D494","U+1D495",
       "U+1D496","U+1D497","U+1D498","U+1D499","U+1D49A","U+1D49B","U+1D49C","U+1D49E","U+1D49F","U+1D4A2","U+1D4A5","U+1D4A6","U+1D4A9","U+1D4AA",
       "U+1D4AB","U+1D4AC","U+1D4AE","U+1D4AF","U+1D4B0","U+1D4B1","U+1D4B2","U+1D4B3","U+1D4B4","U+1D4B5","U+1D4B6","U+1D4B7","U+1D4B8","U+1D4B9",
       "U+1D4BB","U+1D4BD","U+1D4BE","U+1D4BF","U+1D4C0","U+1D4C1","U+1D4C2","U+1D4C3","U+1D4C5","U+1D4C6","U+1D4C7","U+1D4C8","U+1D4C9","U+1D4CA",
       "U+1D4CB","U+1D4CC","U+1D4CD","U+1D4CE","U+1D4CF","U+1D4D0","U+1D4D1","U+1D4D2","U+1D4D3","U+1D4D4","U+1D4D5","U+1D4D6","U+1D4D7","U+1D4D8",
       "U+1D4D9","U+1D4DA","U+1D4DB","U+1D4DC","U+1D4DD","U+1D4DE","U+1D4DF","U+1D4E0","U+1D4E1","U+1D4E2","U+1D4E3","U+1D4E4","U+1D4E5","U+1D4E6",
       "U+1D4E7","U+1D4E8","U+1D4E9","U+1D4EA","U+1D4EB","U+1D4EC","U+1D4ED","U+1D4EE","U+1D4EF","U+1D4F0","U+1D4F1","U+1D4F2","U+1D4F3","U+1D4F4",
       "U+1D4F5","U+1D4F6","U+1D4F7","U+1D4F8","U+1D4F9","U+1D4FA","U+1D4FB","U+1D4FC","U+1D4FD","U+1D4FE","U+1D4FF","U+1D500","U+1D501","U+1D502",
       "U+1D503","U+1D504","U+1D505","U+1D507","U+1D508","U+1D509","U+1D50A","U+1D50D","U+1D50E","U+1D50F","U+1D510","U+1D511","U+1D512","U+1D513",
       "U+1D514","U+1D516","U+1D517","U+1D518","U+1D519","U+1D51A","U+1D51B","U+1D51C","U+1D51E","U+1D51F","U+1D520","U+1D521","U+1D522","U+1D523",
       "U+1D524","U+1D525","U+1D526","U+1D527","U+1D528","U+1D529","U+1D52A","U+1D52B","U+1D52C","U+1D52D","U+1D52E","U+1D52F","U+1D530","U+1D531",
       "U+1D532","U+1D533","U+1D534","U+1D535","U+1D536","U+1D537","U+1D538","U+1D539","U+1D53B","U+1D53C","U+1D53D","U+1D53E","U+1D540","U+1D541",
       "U+1D542","U+1D543","U+1D544","U+1D546","U+1D54A","U+1D54B","U+1D54C","U+1D54D","U+1D54E","U+1D54F","U+1D550","U+1D552","U+1D553","U+1D554",
       "U+1D555","U+1D556","U+1D557","U+1D558","U+1D559","U+1D55A","U+1D55B","U+1D55C","U+1D55D","U+1D55E","U+1D55F","U+1D560","U+1D561","U+1D562",
       "U+1D563","U+1D564","U+1D565","U+1D566","U+1D567","U+1D568","U+1D569","U+1D56A","U+1D56B","U+1D56C","U+1D56D","U+1D56E","U+1D56F","U+1D570",
       "U+1D571","U+1D572","U+1D573","U+1D574","U+1D575","U+1D576","U+1D577","U+1D578","U+1D579","U+1D57A","U+1D57B","U+1D57C","U+1D57D","U+1D57E",
       "U+1D57F","U+1D580","U+1D581","U+1D582","U+1D583","U+1D584","U+1D585","U+1D586","U+1D587","U+1D588","U+1D589","U+1D58A","U+1D58B","U+1D58C",
       "U+1D58D","U+1D58E","U+1D58F","U+1D590","U+1D591","U+1D592","U+1D593","U+1D594","U+1D595","U+1D596","U+1D597","U+1D598","U+1D599","U+1D59A",
       "U+1D59B","U+1D59C","U+1D59D","U+1D59E","U+1D59F","U+1D5A0","U+1D5A1","U+1D5A2","U+1D5A3","U+1D5A4","U+1D5A5","U+1D5A6","U+1D5A7","U+1D5A8",
       "U+1D5A9","U+1D5AA","U+1D5AB","U+1D5AC","U+1D5AD","U+1D5AE","U+1D5AF","U+1D5B0","U+1D5B1","U+1D5B2","U+1D5B3","U+1D5B4","U+1D5B5","U+1D5B6",
       "U+1D5B7","U+1D5B8","U+1D5B9","U+1D5BA","U+1D5BB","U+1D5BC","U+1D5BD","U+1D5BE","U+1D5BF","U+1D5C0","U+1D5C1","U+1D5C2","U+1D5C3","U+1D5C4",
       "U+1D5C5","U+1D5C6","U+1D5C7","U+1D5C8","U+1D5C9","U+1D5CA","U+1D5CB","U+1D5CC","U+1D5CD","U+1D5CE","U+1D5CF","U+1D5D0","U+1D5D1","U+1D5D2",
       "U+1D5D3","U+1D5D4","U+1D5D5","U+1D5D6","U+1D5D7","U+1D5D8","U+1D5D9","U+1D5DA","U+1D5DB","U+1D5DC","U+1D5DD","U+1D5DE","U+1D5DF","U+1D5E0",
       "U+1D5E1","U+1D5E2","U+1D5E3","U+1D5E4","U+1D5E5","U+1D5E6","U+1D5E7","U+1D5E8","U+1D5E9","U+1D5EA","U+1D5EB","U+1D5EC","U+1D5ED","U+1D5EE",
       "U+1D5EF","U+1D5F0","U+1D5F1","U+1D5F2","U+1D5F3","U+1D5F4","U+1D5F5","U+1D5F6","U+1D5F7","U+1D5F8","U+1D5F9","U+1D5FA","U+1D5FB","U+1D5FC",
       "U+1D5FD","U+1D5FE","U+1D5FF","U+1D600","U+1D601","U+1D602","U+1D603","U+1D604","U+1D605","U+1D606","U+1D607","U+1D608","U+1D609","U+1D60A",
       "U+1D60B","U+1D60C","U+1D60D","U+1D60E","U+1D60F","U+1D610","U+1D611","U+1D612","U+1D613","U+1D614","U+1D615","U+1D616","U+1D617","U+1D618",
       "U+1D619","U+1D61A","U+1D61B","U+1D61C","U+1D61D","U+1D61E","U+1D61F","U+1D620","U+1D621","U+1D622","U+1D623","U+1D624","U+1D625","U+1D626",
       "U+1D627","U+1D628","U+1D629","U+1D62A","U+1D62B","U+1D62C","U+1D62D","U+1D62E","U+1D62F","U+1D630","U+1D631","U+1D632","U+1D633","U+1D634",
       "U+1D635","U+1D636","U+1D637","U+1D638","U+1D639","U+1D63A","U+1D63B","U+1D63C","U+1D63D","U+1D63E","U+1D63F","U+1D640","U+1D641","U+1D642",
       "U+1D643","U+1D644","U+1D645","U+1D646","U+1D647","U+1D648","U+1D649","U+1D64A","U+1D64B","U+1D64C","U+1D64D","U+1D64E","U+1D64F","U+1D650",
       "U+1D651","U+1D652","U+1D653","U+1D654","U+1D655","U+1D656","U+1D657","U+1D658","U+1D659","U+1D65A","U+1D65B","U+1D65C","U+1D65D","U+1D65E",
       "U+1D65F","U+1D660","U+1D661","U+1D662","U+1D663","U+1D664","U+1D665","U+1D666","U+1D667","U+1D668","U+1D669","U+1D66A","U+1D66B","U+1D66C",
       "U+1D66D","U+1D66E","U+1D66F","U+1D670","U+1D671","U+1D672","U+1D673","U+1D674","U+1D675","U+1D676","U+1D677","U+1D678","U+1D679","U+1D67A",
       "U+1D67B","U+1D67C","U+1D67D","U+1D67E","U+1D67F","U+1D680","U+1D681","U+1D682","U+1D683","U+1D684","U+1D685","U+1D686","U+1D687","U+1D688",
       "U+1D689","U+1D68A","U+1D68B","U+1D68C","U+1D68D","U+1D68E","U+1D68F","U+1D690","U+1D691","U+1D692","U+1D693","U+1D694","U+1D695","U+1D696",
       "U+1D697","U+1D698","U+1D699","U+1D69A","U+1D69B","U+1D69C","U+1D69D","U+1D69E","U+1D69F","U+1D6A0","U+1D6A1","U+1D6A2","U+1D6A3","U+1D6A4",
       "U+1D6A5","U+1D6A8","U+1D6A9","U+1D6AA","U+1D6AB","U+1D6AC","U+1D6AD","U+1D6AE","U+1D6AF","U+1D6B0","U+1D6B1","U+1D6B2","U+1D6B3","U+1D6B4",
       "U+1D6B5","U+1D6B6","U+1D6B7","U+1D6B8","U+1D6B9","U+1D6BA","U+1D6BB","U+1D6BC","U+1D6BD","U+1D6BE","U+1D6BF","U+1D6C0","U+1D6C2","U+1D6C3",
       "U+1D6C4","U+1D6C5","U+1D6C6","U+1D6C7","U+1D6C8","U+1D6C9","U+1D6CA","U+1D6CB","U+1D6CC","U+1D6CD","U+1D6CE","U+1D6CF","U+1D6D0","U+1D6D1",
       "U+1D6D2","U+1D6D3","U+1D6D4","U+1D6D5","U+1D6D6","U+1D6D7","U+1D6D8","U+1D6D9","U+1D6DA","U+1D6DC","U+1D6DD","U+1D6DE","U+1D6DF","U+1D6E0",
       "U+1D6E1","U+1D6E2","U+1D6E3","U+1D6E4","U+1D6E5","U+1D6E6","U+1D6E7","U+1D6E8","U+1D6E9","U+1D6EA","U+1D6EB","U+1D6EC","U+1D6ED","U+1D6EE",
       "U+1D6EF","U+1D6F0","U+1D6F1","U+1D6F2","U+1D6F3","U+1D6F4","U+1D6F5","U+1D6F6","U+1D6F7","U+1D6F8","U+1D6F9","U+1D6FA","U+1D6FC","U+1D6FD",
       "U+1D6FE","U+1D6FF","U+1D700","U+1D701","U+1D702","U+1D703","U+1D704","U+1D705","U+1D706","U+1D707","U+1D708","U+1D709","U+1D70A","U+1D70B",
       "U+1D70C","U+1D70D","U+1D70E","U+1D70F","U+1D710","U+1D711","U+1D712","U+1D713","U+1D714","U+1D716","U+1D717","U+1D718","U+1D719","U+1D71A",
       "U+1D71B","U+1D71C","U+1D71D","U+1D71E","U+1D71F","U+1D720","U+1D721","U+1D722","U+1D723","U+1D724","U+1D725","U+1D726","U+1D727","U+1D728",
       "U+1D729","U+1D72A","U+1D72B","U+1D72C","U+1D72D","U+1D72E","U+1D72F","U+1D730","U+1D731","U+1D732","U+1D733","U+1D734","U+1D736","U+1D737",
       "U+1D738","U+1D739","U+1D73A","U+1D73B","U+1D73C","U+1D73D","U+1D73E","U+1D73F","U+1D740","U+1D741","U+1D742","U+1D743","U+1D744","U+1D745",
       "U+1D746","U+1D747","U+1D748","U+1D749","U+1D74A","U+1D74B","U+1D74C","U+1D74D","U+1D74E","U+1D750","U+1D751","U+1D752","U+1D753","U+1D754",
       "U+1D755","U+1D756","U+1D757","U+1D758","U+1D759","U+1D75A","U+1D75B","U+1D75C","U+1D75D","U+1D75E","U+1D75F","U+1D760","U+1D761","U+1D762",
       "U+1D763","U+1D764","U+1D765","U+1D766","U+1D767","U+1D768","U+1D769","U+1D76A","U+1D76B","U+1D76C","U+1D76D","U+1D76E","U+1D770","U+1D771",
       "U+1D772","U+1D773","U+1D774","U+1D775","U+1D776","U+1D777","U+1D778","U+1D779","U+1D77A","U+1D77B","U+1D77C","U+1D77D","U+1D77E","U+1D77F",
       "U+1D780","U+1D781","U+1D782","U+1D783","U+1D784","U+1D785","U+1D786","U+1D787","U+1D788","U+1D78A","U+1D78B","U+1D78C","U+1D78D","U+1D78E",
       "U+1D78F","U+1D790","U+1D791","U+1D792","U+1D793","U+1D794","U+1D795","U+1D796","U+1D797","U+1D798","U+1D799","U+1D79A","U+1D79B","U+1D79C",
       "U+1D79D","U+1D79E","U+1D79F","U+1D7A0","U+1D7A1","U+1D7A2","U+1D7A3","U+1D7A4","U+1D7A5","U+1D7A6","U+1D7A7","U+1D7A8","U+1D7AA","U+1D7AB",
       "U+1D7AC","U+1D7AD","U+1D7AE","U+1D7AF","U+1D7B0","U+1D7B1","U+1D7B2","U+1D7B3","U+1D7B4","U+1D7B5","U+1D7B6","U+1D7B7","U+1D7B8","U+1D7B9",
       "U+1D7BA","U+1D7BB","U+1D7BC","U+1D7BD","U+1D7BE","U+1D7BF","U+1D7C0","U+1D7C1","U+1D7C2","U+1D7C4","U+1D7C5","U+1D7C6","U+1D7C7","U+1D7C8",
       "U+1D7C9","U+1D7CA","U+1D7CB","U+1DF00","U+1DF01","U+1DF02","U+1DF03","U+1DF04","U+1DF05","U+1DF06","U+1DF07","U+1DF08","U+1DF09","U+1DF0B",
       "U+1DF0C","U+1DF0D","U+1DF0E","U+1DF0F","U+1DF10","U+1DF11","U+1DF12","U+1DF13","U+1DF14","U+1DF15","U+1DF16","U+1DF17","U+1DF18","U+1DF19",
       "U+1DF1A","U+1DF1B","U+1DF1C","U+1DF1D","U+1DF1E","U+1E900","U+1E901","U+1E902","U+1E903","U+1E904","U+1E905","U+1E906","U+1E907","U+1E908",
       "U+1E909","U+1E90A","U+1E90B","U+1E90C","U+1E90D","U+1E90E","U+1E90F","U+1E910","U+1E911","U+1E912","U+1E913","U+1E914","U+1E915","U+1E916",
       "U+1E917","U+1E918","U+1E919","U+1E91A","U+1E91B","U+1E91C","U+1E91D","U+1E91E","U+1E91F","U+1E920","U+1E921","U+1E922","U+1E923","U+1E924",
       "U+1E925","U+1E926","U+1E927","U+1E928","U+1E929","U+1E92A","U+1E92B","U+1E92C","U+1E92D","U+1E92E","U+1E92F","U+1E930","U+1E931","U+1E932",
       "U+1E933","U+1E934","U+1E935","U+1E936","U+1E937","U+1E938","U+1E939","U+1E93A","U+1E93B","U+1E93C","U+1E93D","U+1E93E","U+1E93F","U+1E940",
       "U+1E941","U+1E942","U+1E943","U+1F130","U+1F131","U+1F132","U+1F133","U+1F134","U+1F135","U+1F136","U+1F137","U+1F138","U+1F139","U+1F13A",
       "U+1F13B","U+1F13C","U+1F13D","U+1F13E","U+1F13F","U+1F140","U+1F141","U+1F142","U+1F143","U+1F144","U+1F145","U+1F146","U+1F147","U+1F148",
       "U+1F149","U+1F150","U+1F151","U+1F152","U+1F153","U+1F154","U+1F155","U+1F156","U+1F157","U+1F158","U+1F159","U+1F15A","U+1F15B","U+1F15C",
       "U+1F15D","U+1F15E","U+1F15F","U+1F160","U+1F161","U+1F162","U+1F163","U+1F164","U+1F165","U+1F166","U+1F167","U+1F168","U+1F169","U+1F170",
       "U+1F171","U+1F172","U+1F173","U+1F174","U+1F175","U+1F176","U+1F177","U+1F178","U+1F179","U+1F17A","U+1F17B","U+1F17C","U+1F17D","U+1F17E",
       "U+1F17F","U+1F180","U+1F181","U+1F182","U+1F183","U+1F184","U+1F185","U+1F186","U+1F187","U+1F188","U+1F189" }

\* the characters c with c.isspace(), which str.strip() removes
Whitespace ==
    { "\t","\n","U+000B","\f","\r","U+001C","U+001D","U+001E","U+001F"," ","U+0085","U+00A0","U+1680","U+2000",
       "U+2001","U+2002","U+2003","U+2004","U+2005","U+2006","U+2007","U+2008","U+2009","U+200A","U+2028","U+2029","U+202F","U+205F",
       "U+3000" }

\* the code points of the characters that are not str.isprintable(), as
\* the ranges (first, last) they fill, in ascending order: the control
\* characters, the separators but the space, the format characters, the
\* surrogates, the private-use characters and the code points that are
\* not assigned
NonPrintableRanges ==
    << <<0, 31>>, <<127, 160>>, <<173, 173>>, <<888, 889>>, <<896, 899>>, <<907, 907>>,
       <<909, 909>>, <<930, 930>>, <<1328, 1328>>, <<1367, 1368>>, <<1419, 1420>>, <<1424, 1424>>,
       <<1480, 1487>>, <<1515, 1518>>, <<1525, 1541>>, <<1564, 1564>>, <<1757, 1757>>, <<1806, 1807>>,
       <<1867, 1868>>, <<1970, 1983>>, <<2043, 2044>>, <<2094, 2095>>, <<2111, 2111>>, <<2140, 2141>>,
       <<2143, 2143>>, <<2155, 2159>>, <<2191, 2199>>, <<2274, 2274>>, <<2436, 2436>>, <<2445, 2446>>,
       <<2449, 2450>>, <<2473, 2473>>, <<2481, 2481>>, <<2483, 2485>>, <<2490, 2491>>, <<2501, 2502>>,
       <<2505, 2506>>, <<2511, 2518>>, <<2520, 2523>>, <<2526, 2526>>, <<2532, 2533>>, <<2559, 2560>>,
       <<2564, 2564>>, <<2571, 2574>>, <<2577, 2578>>, <<2601, 2601>>, <<2609, 2609>>, <<2612, 2612>>,
       <<2615, 2615>>, <<2618, 2619>>, <<2621, 2621>>, <<2627, 2630>>, <<2633, 2634>>, <<2638, 2640>>,
       <<2642, 2648>>, <<2653, 2653>>, <<2655, 2661>>, <<2679, 2688>>, <<2692, 2692>>, <<2702, 2702>>,
       <<2706, 2706>>, <<2729, 2729>>, <<2737, 2737>>, <<2740, 2740>>, <<2746, 2747>>, <<2758, 2758>>,
       <<2762, 2762>>, <<2766, 2767>>, <<2769, 2783>>, <<2788, 2789>>, <<2802, 2808>>, <<2816, 2816>>,
       <<2820, 2820>>, <<2829, 2830>>, <<2833, 2834>>, <<2857, 2857>>, <<2865, 2865>>, <<2868, 2868>>,
       <<2874, 2875>>, <<2885, 2886>>, <<2889, 2890>>, <<2894, 2900>>, <<2904, 2907>>, <<2910, 2910>>,
       <<2916, 2917>>, <<2936, 2945>>, <<2948, 2948>>, <<2955, 2957>>, <<2961, 2961>>, <<2966, 2968>>,
       <<2971, 2971>>, <<2973, 2973>>, <<2976, 2978>>, <<2981, 2983>>, <<2987, 2989>>, <<3002, 3005>>,
       <<3011, 3013>>, <<3017, 3017>>, <<3022, 3023>>, <<3025, 3030>>, <<3032, 3045>>, <<3067, 3071>>,
       <<3085, 3085>>, <<3089, 3089>>, <<3113, 3113>>, <<3130, 3131>>, <<3141, 3141>>, <<3145, 3145>>,
       <<3150, 3156>>, <<3159, 3159>>, <<3163, 3164>>, <<3166, 3167>>, <<3172, 3173>>, <<3184, 3190>>,
       <<3213, 3213>>, <<3217, 3217>>, <<3241, 3241>>, <<3252, 3252>>, <<3258, 3259>>, <<3269, 3269>>,
       <<3273, 3273>>, <<3278, 3284>>, <<3287, 3292>>, <<3295, 3295>>, <<3300, 3301>>, <<3312, 3312>>,
       <<3315, 3327>>, <<3341, 3341>>, <<3345, 3345>>, <<3397, 3397>>, <<3401, 3401>>, <<3408, 3411>>,
       <<3428, 3429>>, <<3456, 3456>>, <<3460, 3460>>, <<3479, 3481>>, <<3506, 3506>>, <<3516, 3516>>,
       <<3518, 3519>>, <<3527, 3529>>, <<3531, 3534>>, <<3541, 3541>>, <<3543, 3543>>, <<3552, 3557>>,
       <<3568, 3569>>, <<3573, 3584>>, <<3643, 3646>>, <<3676, 3712>>, <<3715, 3715>>, <<3717, 3717>>,
       <<3723, 3723>>, <<3748, 3748>>, <<3750, 3750>>, <<3774, 3775>>, <<3781, 3781>>, <<3783, 3783>>,
       <<3790, 3791>>, <<3802, 3803>>, <<3808, 3839>>, <<3912, 3912>>, <<3949, 3952>>, <<3992, 3992>>,
       <<4029, 4029>>, <<4045, 4045>>, <<4059, 4095>>, <<4294, 4294>>, <<4296, 4300>>, <<4302, 4303>>,
       <<4681, 4681>>, <<4686, 4687>>, <<4695, 4695>>, <<4697, 4697>>, <<4702, 4703>>, <<4745, 4745>>,
       <<4750, 4751>>, <<4785, 4785>>, <<4790, 4791>>, <<4799, 4799>>, <<4801, 4801>>, <<4806, 4807>>,
       <<4823, 4823>>, <<4881, 4881>>, <<4886, 4887>>, <<4955, 4956>>, <<4989, 4991>>, <<5018, 5023>>,
       <<5110, 5111>>, <<5118, 5119>>, <<5760, 5760>>, <<5789, 5791>>, <<5881, 5887>>, <<5910, 5918>>,
       <<5943, 5951>>, <<5972, 5983>>, <<5997, 5997>>, <<6001, 6001>>, <<6004, 6015>>, <<6110, 6111>>,
       <<6122, 6127>>, <<6138, 6143>>, <<6158, 6158>>, <<6170, 6175>>, <<6265, 6271>>, <<6315, 6319>>,
       <<6390, 6399>>, <<6431, 6431>>, <<6444, 6447>>, <<6460, 6463>>, <<6465, 6467>>, <<6510, 6511>>,
       <<6517, 6527>>, <<6572, 6575>>, <<6602, 6607>>, <<6619, 6621>>, <<6684, 6685>>, <<6751, 6751>>,
       <<6781, 6782>>, <<6794, 6799>>, <<6810, 6815>>, <<6830, 6831>>, <<6863, 6911>>, <<6989, 6991>>,
       <<7039, 7039>>, <<7156, 7163>>, <<7224, 7226>>, <<7242, 7244>>, <<7305, 7311>>, <<7355, 7356>>,
       <<7368, 7375>>, <<7419, 7423>>, <<7958, 7959>>, <<7966, 7967>>, <<8006, 8007>>, <<8014, 8015>>,
       <<8024, 8024>>, <<8026, 8026>>, <<8028, 8028>>, <<8030, 8030>>, <<8062, 8063>>, <<8117, 8117>>,
       <<8133, 8133>>, <<8148, 8149>>, <<8156, 8156>>, <<8176, 8177>>, <<8181, 8181>>, <<8191, 8207>>,
       <<8232, 8239>>, <<8287, 8303>>, <<8306, 8307>>, <<8335, 8335>>, <<8349, 8351>>, <<8385, 8399>>,
       <<8433, 8447>>, <<8588, 8591>>, <<9255, 9279>>, <<9291, 9311>>, <<11124, 11125>>, <<11158, 11158>>,
       <<11508, 11512>>, <<11558, 11558>>, <<11560, 11564>>, <<11566, 11567>>, <<11624, 11630>>, <<11633, 11646>>,
       <<11671, 11679>>, <<11687, 11687>>, <<11695, 11695>>, <<11703, 11703>>, <<11711, 11711>>, <<11719, 11719>>,
       <<11727, 11727>>, <<11735, 11735>>, <<11743, 11743>>, <<11870, 11903>>, <<11930, 11930>>, <<12020, 12031>>,
       <<12246, 12271>>, <<12284, 12288>>, <<12352, 12352>>, <<12439, 12440>>, <<12544, 12548>>, <<12592, 12592>>,
       <<12687, 12687>>, <<12772, 12783>>, <<12831, 12831>>, <<42125, 42127>>, <<42183, 42191>>, <<42540, 42559>>,
       <<42744, 42751>>, <<42955, 42959>>, <<42962, 42962>>, <<42964, 42964>>, <<42970, 42993>>, <<43053, 43055>>,
       <<43066, 43071>>, <<43128, 43135>>, <<43206, 43213>>, <<43226, 43231>>, <<43348, 43358>>, <<43389, 43391>>,
       <<43470, 43470>>, <<43482, 43485>>, <<43519, 43519>>, <<43575, 43583>>, <<43598, 43599>>, <<43610, 43611>>,
       <<43715, 43738>>, <<43767, 43776>>, <<43783, 43784>>, <<43791, 43792>>, <<43799, 43807>>, <<43815, 43815>>,
       <<43823, 43823>>, <<43884, 43887>>, <<44014, 44015>>, <<44026, 44031>>, <<55204, 55215>>, <<55239, 55242>>,
       <<55292, 63743>>, <<64110, 64111>>, <<64218, 64255>>, <<64263, 64274>>, <<64280, 64284>>, <<64311, 64311>>,
       <<64317, 64317>>, <<64319, 64319>>, <<64322, 64322>>, <<64325, 64325>>, <<64451, 64466>>, <<64912, 64913>>,
       <<64968, 64974>>, <<64976, 65007>>, <<65050, 65055>>, <<65107, 65107>>, <<65127, 65127>>, <<65132, 65135>>,
       <<65141, 65141>>, <<65277, 65280>>, <<65471, 65473>>, <<65480, 65481>>, <<65488, 65489>>, <<65496, 65497>>,
       <<65501, 65503>>, <<65511, 65511>>, <<65519, 65531>>, <<65534, 65535>>, <<65548, 65548>>, <<65575, 65575>>,
       <<65595, 65595>>, <<65598, 65598>>, <<65614, 65615>>, <<65630, 65663>>, <<65787, 65791>>, <<65795, 65798>>,
       <<65844, 65846>>, <<65935, 65935>>, <<65949, 65951>>, <<65953, 65999>>, <<66046, 66175>>, <<66205, 66207>>,
       <<66257, 66271>>, <<66300, 66303>>, <<66340, 66348>>, <<66379, 66383>>, <<66427, 66431>>, <<66462, 66462>>,
       <<66500, 66503>>, <<66518, 66559>>, <<66718, 66719>>, <<66730, 66735>>, <<66772, 66775>>, <<66812, 66815>>,
       <<66856, 66863>>, <<66916, 66926>>, <<66939, 66939>>, <<66955, 66955>>, <<66963, 66963>>, <<66966, 66966>>,
       <<66978, 66978>>, <<66994, 66994>>, <<67002, 67002>>, <<67005, 67071>>, <<67383, 67391>>, <<67414, 67423>>,
       <<67432, 67455>>, <<67462, 67462>>, <<67505, 67505>>, <<67515, 67583>>, <<67590, 67591>>, <<67593, 67593>>,
       <<67638, 67638>>, <<67641, 67643>>, <<67645, 67646>>, <<67670, 67670>>, <<67743, 67750>>, <<67760, 67807>>,
       <<67827, 67827>>, <<67830, 67834>>, <<67868, 67870>>, <<67898, 67902>>, <<67904, 67967>>, <<68024, 68027>>,
       <<68048, 68049>>, <<68100, 68100>>, <<68103, 68107>>, <<68116, 68116>>, <<68120, 68120>>, <<68150, 68151>>,
       <<68155, 68158>>, <<68169, 68175>>, <<68185, 68191>>, <<68256, 68287>>, <<68327, 68330>>, <<68343, 68351>>,
       <<68406, 68408>>, <<68438, 68439>>, <<68467, 68471>>, <<68498, 68504>>, <<68509, 68520>>, <<68528, 68607>>,
       <<68681, 68735>>, <<68787, 68799>>, <<68851, 68857>>, <<68904, 68911>>, <<68922, 69215>>, <<69247, 69247>>,
       <<69290, 69290>>, <<69294, 69295>>, <<69298, 69375>>, <<69416, 69423>>, <<69466, 69487>>, <<69514, 69551>>,
       <<69580, 69599>>, <<69623, 69631>>, <<69710, 69713>>, <<69750, 69758>>, <<69821, 69821>>, <<69827, 69839>>,
       <<69865, 69871>>, <<69882, 69887>>, <<69941, 69941>>, <<69960, 69967>>, <<70007, 70015>>, <<70112, 70112>>,
       <<70133, 70143>>, <<70162, 70162>>, <<70207, 70271>>, <<70279, 70279>>, <<70281, 70281>>, <<70286, 70286>>,
       <<70302, 70302>>, <<70314, 70319>>, <<70379, 70383>>, <<70394, 70399>>, <<70404, 70404>>, <<70413, 70414>>,
       <<70417, 70418>>, <<70441, 70441>>, <<70449, 70449>>, <<70452, 70452>>, <<70458, 70458>>, <<70469, 70470>>,
       <<70473, 70474>>, <<70478, 70479>>, <<70481, 70486>>, <<70488, 70492>>, <<70500, 70501>>, <<70509, 70511>>,
       <<70517, 70655>>, <<70748, 70748>>, <<70754, 70783>>, <<70856, 70863>>, <<70874, 71039>>, <<71094, 71095>>,
       <<71134, 71167>>, <<71237, 71247>>, <<71258, 71263>>, <<71277, 71295>>, <<71354, 71359>>, <<71370, 71423>>,
       <<71451, 71452>>, <<71468, 71471>>, <<71495, 71679>>, <<71740, 71839>>, <<71923, 71934>>, <<71943, 71944>>,
       <<71946, 71947>>, <<71956, 71956>>, <<71959, 71959>>, <<71990, 71990>>, <<71993, 71994>>, <<72007, 72015>>,
       <<72026, 72095>>, <<72104, 72105>>, <<72152, 72153>>, <<72165, 72191>>, <<72264, 72271>>, <<72355, 72367>>,
       <<72441, 72703>>, <<72713, 72713>>, <<72759, 72759>>, <<72774, 72783>>, <<72813, 72815>>, <<72848, 72849>>,
       <<72872, 72872>>, <<72887, 72959>>, <<72967, 72967>>, <<72970, 72970>>, <<73015, 73017>>, <<73019, 73019>>,
       <<73022, 73022>>, <<73032, 73039>>, <<73050, 73055>>, <<73062, 73062>>, <<73065, 73065>>, <<73103, 73103>>,
       <<73106, 73106>>, <<73113, 73119>>, <<73130, 73439>>, <<73465, 73647>>, <<73649, 73663>>, <<73714, 73726>>,
       <<74650, 74751>>, <<74863, 74863>>, <<74869, 74879>>, <<75076, 77711>>, <<77811, 77823>>, <<78895, 82943>>,
       <<83527, 92159>>, <<92729, 92735>>, <<92767, 92767>>, <<92778, 92781>>, <<92863, 92863>>, <<92874, 92879>>,
       <<92910, 92911>>, <<92918, 92927>>, <<92998, 93007>>, <<93018, 93018>>, <<93026, 93026>>, <<93048, 93052>>,
       <<93072, 93759>>, <<93851, 93951>>, <<94027, 94030>>, <<94088, 94094>>, <<94112, 94175>>, <<94181, 94191>>,
       <<94194, 94207>>, <<100344, 100351>>, <<101590, 101631>>, <<101641, 110575>>, <<110580, 110580>>, <<110588, 110588>>,
       <<110591, 110591>>, <<110883, 110927>>, <<110931, 110947>>, <<110952, 110959>>, <<111356, 113663>>, <<113771, 113775>>,
       <<113789, 113791>>, <<113801, 113807>>, <<113818, 113819>>, <<113824, 118527>>, <<118574, 118575>>, <<118599, 118607>>,
       <<118724, 118783>>, <<119030, 119039>>, <<119079, 119080>>, <<119155, 119162>>, <<119275, 119295>>, <<119366, 119519>>,
       <<119540, 119551>>, <<119639, 119647>>, <<119673, 119807>>, <<119893, 119893>>, <<119965, 119965>>, <<119968, 119969>>,
       <<119971, 119972>>, <<119975, 119976>>, <<119981, 119981>>, <<119994, 119994>>, <<119996, 119996>>, <<120004, 120004>>,
       <<120070, 120070>>, <<120075, 120076>>, <<120085, 120085>>, <<120093, 120093>>, <<120122, 120122>>, <<120127, 120127>>,
       <<120133, 120133>>, <<120135, 120137>>, <<120145, 120145>>, <<120486, 120487>>, <<120780, 120781>>, <<121484, 121498>>,
       <<121504, 121504>>, <<121520, 122623>>, <<122655, 122879>>, <<122887, 122887>>, <<122905, 122906>>, <<122914, 122914>>,
       <<122917, 122917>>, <<122923, 123135>>, <<123181, 123183>>, <<123198, 123199>>, <<123210, 123213>>, <<123216, 123535>>,
       <<123567, 123583>>, <<123642, 123646>>, <<123648, 124895>>, <<124903, 124903>>, <<124908, 124908>>, <<124911, 124911>>,
       <<124927, 124927>>, <<125125, 125126>>, <<125143, 125183>>, <<125260, 125263>>, <<125274, 125277>>, <<125280, 126064>>,
       <<126133, 126208>>, <<126270, 126463>>, <<126468, 126468>>, <<126496, 126496>>, <<126499, 126499>>, <<126501, 126502>>,
       <<126504, 126504>>, <<126515, 126515>>, <<126520, 126520>>, <<126522, 126522>>, <<126524, 126529>>, <<126531, 126534>>,
       <<126536, 126536>>, <<126538, 126538>>, <<126540, 126540>>, <<126544, 126544>>, <<126547, 126547>>, <<126549, 126550>>,
       <<126552, 126552>>, <<126554, 126554>>, <<126556, 126556>>, <<126558, 126558>>, <<126560, 126560>>, <<126563, 126563>>,
       <<126565, 126566>>, <<126571, 126571>>, <<126579, 126579>>, <<126584, 126584>>, <<126589, 126589>>, <<126591, 126591>>,
       <<126602, 126602>>, <<126620, 126624>>, <<126628, 126628>>, <<126634, 126634>>, <<126652, 126703>>, <<126706, 126975>>,
       <<127020, 127023>>, <<127124, 127135>>, <<127151, 127152>>, <<127168, 127168>>, <<127184, 127184>>, <<127222, 127231>>,
       <<127406, 127461>>, <<127491, 127503>>, <<127548, 127551>>, <<127561, 127567>>, <<127570, 127583>>, <<127590, 127743>>,
       <<128728, 128732>>, <<128749, 128751>>, <<128765, 128767>>, <<128884, 128895>>, <<128985, 128991>>, <<129004, 129007>>,
       <<129009, 129023>>, <<129036, 129039>>, <<129096, 129103>>, <<129114, 129119>>, <<129160, 129167>>, <<129198, 129199>>,
       <<129202, 129279>>, <<129620, 129631>>, <<129646, 129647>>, <<129653, 129655>>, <<129661, 129663>>, <<129671, 129679>>,
       <<129709, 129711>>, <<129723, 129727>>, <<129734, 129743>>, <<129754, 129759>>, <<129768, 129775>>, <<129783, 129791>>,
       <<129939, 129939>>, <<129995, 130031>>, <<130042, 131071>>, <<173792, 173823>>, <<177977, 177983>>, <<178206, 178207>>,
       <<183970, 183983>>, <<191457, 194559>>, <<195102, 196607>>, <<201547, 917759>>, <<918000, 1114111>> >>

\* the table that takes from[i] to to[i], for two sequences of one length
Translate(from, to) ==
    [c \in {from[i] : i \in 1..Len(from)} |->
        to[CHOOSE i \in 1..Len(from) : from[i] = c]]

\* c.lower(), for the characters of UpperChars
LowerTable == Translate(UpperChars, LowerChars)

HasLower == DOMAIN LowerTable

\* str.lower() on one character: one character, but for U+0130, whose lower
\* case is an i and a combining dot above
LowerChar(c) ==
    IF c = "U+0130" THEN <<"i", "U+0307">>
    ELSE IF c \in HasLower THEN <<LowerTable[c]>>
    ELSE <<c>>

\* the sigma at position i ends a word: a letter comes before it and none
\* behind it, where counted are the positions of the characters that are not
\* case-ignorable and cased the positions of the letters
FinalSigma(i, counted, cased) ==
    LET before == {j \in counted : j < i}
        behind == {j \in counted : j > i}
        last_before == CHOOSE j \in before : \A k \in before : k <= j
        first_behind == CHOOSE j \in behind : \A k \in behind : j <= k
    IN  /\ before # {}
        /\ last_before \in cased
        /\ (behind = {} \/ first_behind \notin cased)

\* the lower case of the capital sigma s[i]: the final sigma at the end of
\* a word
LowerSigma(s, i) ==
    IF FinalSigma(i, {j \in 1..Len(s) : s[j] \notin CaseIgnorable},
                  {j \in 1..Len(s) : s[j] \in Cased})
    THEN "ς" ELSE "σ"

\* str.lower()
Lower(s) ==
    Concat([i \in 1..Len(s) |->
                IF s[i] = "Σ" THEN <<LowerSigma(s, i)>> ELSE LowerChar(s[i])])

RECURSIVE LStrip(_)
LStrip(s) ==
    IF s # <<>> /\ Head(s) \in Whitespace THEN LStrip(Tail(s)) ELSE s

RECURSIVE RStrip(_)
RStrip(s) ==
    IF s # <<>> /\ s[Len(s)] \in Whitespace
    THEN RStrip(SubSeq(s, 1, Len(s) - 1)) ELSE s

\* str.strip()
Strip(s) == RStrip(LStrip(s))

\* q in s, for two str
IsSubstr(q, s) ==
    \E i \in 0..(Len(s) - Len(q)) : SubSeq(s, i + 1, i + Len(q)) = q

DigitChars == <<"0","1","2","3","4","5","6","7","8","9">>

RECURSIVE NatStr(_)
\* str(n) for an int n >= 0
NatStr(n) ==
    IF n < 10 THEN <<DigitChars[n + 1]>>
    ELSE NatStr(n \div 10) \o <<DigitChars[(n % 10) + 1]>>

\* str(n) for an int
IntStr(n) == IF n < 0 THEN <<"-">> \o NatStr(0 - n) ELSE NatStr(n)

\* repr(n) for an Optional[int]
OptIntRepr(v) == IF v = NoneVal THEN <<"N", "o", "n", "e">> ELSE IntStr(v[1])

HexChars == <<"0","1","2","3","4","5","6","7","8","9","A","B","C","D","E","F">>
LowerHexChars == <<"0","1","2","3","4","5","6","7","8","9","a","b","c","d","e","f">>

RECURSIVE HexNum(_, _)
\* the number the first k hexadecimal digits of the string h write
HexNum(h, k) ==
    IF k = 0 THEN 0
    ELSE 16 * HexNum(h, k - 1)
            + (CHOOSE d \in 0..15 : HexChars[d + 1] = SubSeq(h, k, k))

\* ord(c)
CodePoint(c) ==
    IF c = "\t" THEN 9
    ELSE IF c = "\n" THEN 10
    ELSE IF c = "\f" THEN 12
    ELSE IF c = "\r" THEN 13
    ELSE HexNum(SubSeq(c, 3, Len(c)), Len(c) - 2)

\* the character is written by its code point
IsNamed(c) == Len(c) > 1 /\ SubSeq(c, 1, 2) = "U+"

\* c.isprintable(): a character that is written as itself is printable,
\* but for the four that have an escape in a TLA+ string
IsPrintable(c) ==
    IF c \in {"\t", "\n", "\f", "\r"} THEN FALSE
    ELSE IF ~IsNamed(c) THEN TRUE
    ELSE LET n == CodePoint(c)
         IN  ~\E r \in 1..Len(NonPrintableRanges) :
                NonPrintableRanges[r][1] <= n /\ n <= NonPrintableRanges[r][2]

RECURSIVE HexPad(_, _)
\* n in w hexadecimal digits, in lower case
HexPad(n, w) ==
    IF w = 0 THEN <<>>
    ELSE HexPad(n \div 16, w - 1) \o <<LowerHexChars[(n % 16) + 1]>>

\* what repr() writes for a character that is not printable and is none of
\* \t, \n and \r: \xNN below U+0100, \uNNNN below U+10000, \UNNNNNNNN above
HexEscape(c) ==
    LET n == CodePoint(c)
    IN  IF n < 256 THEN <<"\\", "x">> \o HexPad(n, 2)
        ELSE IF n < 65536 THEN <<"\\", "u">> \o HexPad(n, 4)
        ELSE <<"\\", "U">> \o HexPad(n, 8)

\* repr() of one character between the quotes quote
CharRepr(c, quote) ==
    IF c = quote \/ c = "\\" THEN <<"\\", c>>
    ELSE IF c = "\t" THEN <<"\\", "t">>
    ELSE IF c = "\n" THEN <<"\\", "n">>
    ELSE IF c = "\r" THEN <<"\\", "r">>
    ELSE IF ~IsPrintable(c) THEN HexEscape(c)
    ELSE <<c>>

\* repr(s) for a str: in double quotes when s holds a single quote and no
\* double quote, in single quotes otherwise
StrRepr(s) ==
    LET has(c) == \E i \in 1..Len(s) : s[i] = c
        quote == IF has("'") /\ ~has("\"") THEN "\"" ELSE "'"
    IN  <<quote>> \o Concat([i \in 1..Len(s) |-> CharRepr(s[i], quote)]) \o <<quote>>

\* sep.join(parts)
Join(sep, parts) ==
    IF parts = <<>> THEN <<>>
    ELSE Concat([k \in 1..(2 * Len(parts) - 1) |->
                    IF k % 2 = 1 THEN parts[(k + 1) \div 2] ELSE sep])

\* repr(l) for a list of str
ListRepr(l) ==
    <<"[">> \o Join(<<",", " ">>, [i \in 1..Len(l) |-> StrRepr(l[i])]) \o <<"]">>

\* dict.get(key, default)
Get(d, k, default) == IF k \in DOMAIN d THEN d[k] ELSE default

RECURSIVE Pow2Mod(_, _)
\* pow(2, e, m)
Pow2Mod(e, m) == IF e = 0 THEN 1 % m ELSE (2 * Pow2Mod(e - 1, m)) % m

RECURSIVE Log2Floor(_)
\* the p with 2^p <= n < 2^(p+1), for an int n >= 1
Log2Floor(n) == IF n < 2 THEN 0 ELSE 1 + Log2Floor(n \div 2)

RECURSIVE Log2Below(_, _)
\* the p < 0 with 2^p <= m/d < 2^(p+1), for 0 < m < d
Log2Below(m, d) == IF 2 * m >= d THEN 0 - 1 ELSE Log2Below(2 * m, d) - 1

\* the float nearest to m/200 is greater than m/200, for an odd m > 0 that
\* 25 does not divide (m/200 is then no float): with 53 bits of mantissa the
\* float is N * 2^-e for the integer N nearest to m * 2^e / 200, where
\* 2^52 <= m * 2^e / 200 < 2^53, and it is the greater of the two when the
\* remainder of m * 2^e by 200 is above 100
FloatAbove(m) ==
    LET p == IF m >= 200 THEN Log2Floor(m \div 200) ELSE Log2Below(m, 200)
        e == 52 - p
    IN  ((m % 200) * Pow2Mod(e, 200)) % 200 > 100

\* round(total / n, 2) in hundredths (4.33 is 433), for n > 0 and
\* total >= 0.  total / n is the float nearest to the quotient, and round
\* gives the hundredth nearest to that float, the even one when the float is
\* halfway between two.  The float is on the side of a halfway point the
\* quotient is on; a quotient that is a halfway point itself is a float when
\* it is a multiple of 1/8, and lies on the side FloatAbove tells otherwise.
RoundHalf(total, n) ==
    LET q == (100 * total) \div n
        r == (100 * total) % n
        m == 2 * q + 1
    IN  IF 2 * r < n THEN q
        ELSE IF 2 * r > n THEN q + 1
        ELSE IF m % 25 = 0 THEN (IF q % 2 = 0 THEN q ELSE q + 1)
        ELSE IF FloatAbove(m) THEN q + 1 ELSE q

\* round(total / n, 2) in hundredths, for n > 0
Round2(total, n) ==
    IF total < 0 THEN 0 - RoundHalf(0 - total, n) ELSE RoundHalf(total, n)

----------------------------------------------------------------------------
(* datetime: date.fromordinal, timedelta and strftime("%Y-%m-%d") *)

DaysBeforeMonth == <<0, 31, 59, 90, 120, 151, 181, 212, 243, 273, 304, 334>>
DaysInMonth == <<31, 28, 31, 30, 31, 30, 31, 31, 30, 31, 30, 31>>

\* (year, month, day) of the proleptic Gregorian ordinal n (1 = 0001-01-01)
Ord2Ymd(n) ==
    LET n0 == n - 1
        n400 == n0 \div 146097
        r400 == n0 % 146097
        n100 == r400 \div 36524
        r100 == r400 % 36524
        n4 == r100 \div 1461
        r4 == r100 % 1461
        n1 == r4 \div 365
        r1 == r4 % 365
        year == n400 * 400 + 1 + n100 * 100 + n4 * 4 + n1
        leap == n1 = 3 /\ (n4 # 24 \/ n100 = 3)
        m0 == (r1 + 50) \div 32
        p0 == DaysBeforeMonth[m0] + (IF m0 > 2 /\ leap THEN 1 ELSE 0)
        month == IF p0 > r1 THEN m0 - 1 ELSE m0
        preceding ==
            IF p0 > r1
            THEN p0 - (DaysInMonth[month] + (IF month = 2 /\ leap THEN 1 ELSE 0))
            ELSE p0
    IN  IF n1 = 4 \/ n100 = 4
        THEN <<year - 1, 12, 31>>
        ELSE <<year, month, r1 - preceding + 1>>

\* zero-padded decimal of width w
RECURSIVE Pad(_, _)
Pad(n, w) ==
    IF w = 0 THEN <<>> ELSE Pad(n \div 10, w - 1) \o <<DigitChars[(n % 10) + 1]>>

\* datetime.strftime("%Y-%m-%d"): the C library writes the year without
\* leading zeros
Strftime(n) ==
    LET ymd == Ord2Ymd(n)
    IN  NatStr(ymd[1]) \o <<"-">> \o Pad(ymd[2], 2) \o <<"-">> \o Pad(ymd[3], 2)

\* datetime.max.toordinal(): 9999-12-31
MaxOrdinal == 3652059

----------------------------------------------------------------------------
(* class Book *)

Available == <<"A", "v", "a", "i", "l", "a", "b", "l", "e">>
Borrowed == <<"B", "o", "r", "r", "o", "w", "e", "d">>
Lost == <<"L", "o", "s", "t">>

DefaultLocation == <<"S", "h", "e", "l", "f">>
DefaultStatus == Available

\* __doc__ of the class
BookDoc ==
    <<"C", "l", "a", "s", "s", " ", "r", "e", "p", "r", "e", "s", "e", "n", "t", "i", "n", "g", " ", "a", " ", "b", "o", "o", "k", " ", "i", "n", " ", "t", "h", "e", " ", "p", "e", "r", "s", "o", "n", "a", "l", " ", "l", "i", "b", "r", "a", "r", "y", ".">>

\* Book.__init__ called with the keyword arguments args at time now
BookInit(args, now) ==
    [ title         |-> args["title"],
      author        |-> args["author"],
      isbn          |-> Get(args, "isbn", <<>>),
      genre         |-> Get(args, "genre", <<>>),
      year          |-> Get(args, "year", NoneVal),
      publisher     |-> Get(args, "publisher", <<>>),
      pages         |-> Get(args, "pages", NoneVal),
      description   |-> Get(args, "description", <<>>),
      location      |-> Get(args, "location", DefaultLocation),
      status        |-> Get(args, "status", DefaultStatus),
      rating        |-> Get(args, "rating", NoneVal),
      date_added    |-> IF Get(args, "date_added", NoneStr) = NoneStr
                        THEN Strftime(now) ELSE args["date_added"],
      borrowed_by   |-> <<>>,
      borrowed_date |-> <<>>,
      due_date      |-> <<>>,
      tags          |-> IF Get(args, "tags", NoneList) = NoneList
                        THEN <<>> ELSE args["tags"],
      extra         |-> <<>> ]

\* Book.to_dict
to_dict(b) ==
    [ title         |-> b.title,
      author        |-> b.author,
      isbn          |-> b.isbn,
      genre         |-> b.genre,
      year          |-> b.year,
      publisher     |-> b.publisher,
      pages         |-> b.pages,
      description   |-> b.description,
      location      |-> b.location,
      status        |-> b.status,
      rating        |-> b.rating,
      date_added    |-> b.date_added,
      borrowed_by   |-> b.borrowed_by,
      borrowed_date |-> b.borrowed_date,
      due_date      |-> b.due_date,
      tags          |-> b.tags ]

\* Book.from_dict raises KeyError unless data has "title" and "author"
from_dict_ok(data) == {"title", "author"} \subseteq DOMAIN data

CtorKeys ==
    {"title", "author", "isbn", "genre", "year", "publisher", "pages",
     "description", "location", "status", "rating", "date_added", "tags"}

\* a faulty Book.from_dict: the borrowing info is not set
from_dict_without_lending(data, now) ==
    BookInit([k \in (DOMAIN data) \cap CtorKeys |-> data[k]], now)

\* Book.from_dict
from_dict(data, now) ==
    [ BookInit([k \in (DOMAIN data) \cap CtorKeys |-> data[k]], now)
        EXCEPT !.borrowed_by   = Get(data, "borrowed_by", <<>>),
               !.borrowed_date = Get(data, "borrowed_date", <<>>),
               !.due_date      = Get(data, "due_date", <<>>) ]

\* Book.lend raises ValueError unless the book is available
lend_ok(b) == b.status = Available

\* today + datetime.timedelta(days=days) raises OverflowError: the day is
\* before datetime.min or after datetime.max
lend_overflows(days, now) == now + days < 1 \/ now + days > MaxOrdinal

\* Book.lend, past its guard: the book it leaves.  When the due date
\* overflows, the exception leaves the book with the three assignments
\* made before it.
lend(b, borrower, days, now) ==
    LET taken == [ b EXCEPT !.status        = Borrowed,
                            !.borrowed_by   = borrower,
                            !.borrowed_date = Strftime(now) ]
    IN  IF lend_overflows(days, now) THEN taken
        ELSE [taken EXCEPT !.due_date = Strftime(now + days)]

\* Book.return_book raises ValueError unless the book is borrowed
return_ok(b) == b.status = Borrowed

\* a faulty Book.return_book: the due date is not cleared
return_book_keeps_due_date(b) ==
    [ b EXCEPT !.status        = Available,
               !.borrowed_by   = <<>>,
               !.borrowed_date = <<>> ]

\* Book.return_book, past its guard
return_book(b) ==
    [ b EXCEPT !.status        = Available,
               !.borrowed_by   = <<>>,
               !.borrowed_date = <<>>,
               !.due_date      = <<>> ]

\* x in list
Contains(s, x) == \E i \in 1..Len(s) : s[i] = x

\* a faulty removal: list.pop() without the index, the last element goes
RemoveLast(s, i) == SubSeq(s, 1, Len(s) - 1)

\* list.pop(i), the list that is left (i counted from 1)
RemoveAt(s, i) == SubSeq(s, 1, i - 1) \o SubSeq(s, i + 1, Len(s))

\* list.remove(x) on a list that holds x: the first occurrence goes
RemoveFirst(s, x) == RemoveAt(s, CHOOSE i \in 1..Len(s) :
                                    s[i] = x /\ \A j \in 1..(i - 1) : s[j] # x)

\* tag in self.tags, and for tag in book.tags, raise TypeError: the tags
\* are None
tags_raise(b) == b.tags = NoneList

\* Book.add_tag: the book it leaves
add_tag(b, tag) ==
    IF tags_raise(b) THEN b
    ELSE IF ~Contains(b.tags, tag) THEN [b EXCEPT !.tags = Append(b.tags, tag)]
    ELSE b

\* Book.remove_tag: the book it leaves
remove_tag(b, tag) ==
    IF tags_raise(b) THEN b
    ELSE IF Contains(b.tags, tag) THEN [b EXCEPT !.tags = RemoveFirst(b.tags, tag)]
    ELSE b

----------------------------------------------------------------------------
(* Attributes: what hasattr, getattr and setattr do on a Book.  The values *)
(* stored are None, int, str and list values: a data attribute holds a     *)
(* value of the type Book.__init__ declares for it or None, one stored     *)
(* under a name of the class is an Optional[int].                          *)

\* the data attributes, in the order Book.__init__ assigns them
DataAttributes ==
    <<"title", "author", "isbn", "genre", "year", "publisher", "pages",
      "description", "location", "status", "rating", "date_added", "borrowed_by",
      "borrowed_date", "due_date", "tags">>

IsDataAttribute(key) == \E i \in 1..Len(DataAttributes) : DataAttributes[i] = key

IntFields == {"year", "pages", "rating"}

\* value is None, for a value of the data attribute key
IsNone(key, value) ==
    IF key \in IntFields THEN value = NoneVal
    ELSE IF key = "tags" THEN value = NoneList
    ELSE value = NoneStr

\* the methods of Book that are bound to the book
InstanceMethods == {"__init__", "to_dict", "lend", "return_book", "add_tag", "remove_tag"}

\* the method of Book that is bound to the class
ClassMethods == {"from_dict"}

\* the slots of object, bound to the book
MethodWrappers ==
    {"__delattr__", "__eq__", "__ge__", "__getattribute__", "__gt__",
     "__hash__", "__le__", "__lt__", "__ne__", "__repr__", "__setattr__",
     "__str__"}

\* the built-in methods of object, bound to the book
BuiltinMethods ==
    {"__dir__", "__format__", "__getstate__", "__reduce__", "__reduce_ex__",
     "__sizeof__"}

\* the built-in class methods of object, bound to the class
TypeMethods == {"__init_subclass__", "__subclasshook__"}

\* the attributes setattr has a setter for: nothing is stored in the __dict__
Descriptors == {"__class__", "__dict__", "__weakref__"}

\* the names hasattr finds on every Book besides its data attributes
ClassAttributes ==
    InstanceMethods \cup ClassMethods \cup MethodWrappers \cup BuiltinMethods
        \cup TypeMethods \cup Descriptors \cup {"__new__", "__doc__", "__module__"}

\* the names of the attributes
AttributeNames ==
    <<"title", "author", "isbn", "genre", "year", "publisher", "pages",
      "description", "location", "status", "rating", "date_added", "borrowed_by",
      "borrowed_date", "due_date", "tags", "__init__", "to_dict", "lend",
      "return_book", "add_tag", "remove_tag", "from_dict", "__delattr__",
      "__eq__", "__ge__", "__getattribute__", "__gt__", "__hash__", "__le__",
      "__lt__", "__ne__", "__repr__", "__setattr__", "__str__", "__dir__",
      "__format__", "__getstate__", "__reduce__", "__reduce_ex__", "__sizeof__",
      "__init_subclass__", "__subclasshook__", "__new__", "__doc__",
      "__module__", "__class__", "__dict__", "__weakref__">>

\* the names of the attributes as str, in the order of AttributeNames
AttributeNameChars ==
    << <<"t", "i", "t", "l", "e">>,
       <<"a", "u", "t", "h", "o", "r">>,
       <<"i", "s", "b", "n">>,
       <<"g", "e", "n", "r", "e">>,
       <<"y", "e", "a", "r">>,
       <<"p", "u", "b", "l", "i", "s", "h", "e", "r">>,
       <<"p", "a", "g", "e", "s">>,
       <<"d", "e", "s", "c", "r", "i", "p", "t", "i", "o", "n">>,
       <<"l", "o", "c", "a", "t", "i", "o", "n">>,
       <<"s", "t", "a", "t", "u", "s">>,
       <<"r", "a", "t", "i", "n", "g">>,
       <<"d", "a", "t", "e", "_", "a", "d", "d", "e", "d">>,
       <<"b", "o", "r", "r", "o", "w", "e", "d", "_", "b", "y">>,
       <<"b", "o", "r", "r", "o", "w", "e", "d", "_", "d", "a", "t", "e">>,
       <<"d", "u", "e", "_", "d", "a", "t", "e">>,
       <<"t", "a", "g", "s">>,
       <<"_", "_", "i", "n", "i", "t", "_", "_">>,
       <<"t", "o", "_", "d", "i", "c", "t">>,
       <<"l", "e", "n", "d">>,
       <<"r", "e", "t", "u", "r", "n", "_", "b", "o", "o", "k">>,
       <<"a", "d", "d", "_", "t", "a", "g">>,
       <<"r", "e", "m", "o", "v", "e", "_", "t", "a", "g">>,
       <<"f", "r", "o", "m", "_", "d", "i", "c", "t">>,
       <<"_", "_", "d", "e", "l", "a", "t", "t", "r", "_", "_">>,
       <<"_", "_", "e", "q", "_", "_">>,
       <<"_", "_", "g", "e", "_", "_">>,
       <<"_", "_", "g", "e", "t", "a", "t", "t", "r", "i", "b", "u", "t", "e", "_", "_">>,
       <<"_", "_", "g", "t", "_", "_">>,
       <<"_", "_", "h", "a", "s", "h", "_", "_">>,
       <<"_", "_", "l", "e", "_", "_">>,
       <<"_", "_", "l", "t", "_", "_">>,
       <<"_", "_", "n", "e", "_", "_">>,
       <<"_", "_", "r", "e", "p", "r", "_", "_">>,
       <<"_", "_", "s", "e", "t", "a", "t", "t", "r", "_", "_">>,
       <<"_", "_", "s", "t", "r", "_", "_">>,
       <<"_", "_", "d", "i", "r", "_", "_">>,
       <<"_", "_", "f", "o", "r", "m", "a", "t", "_", "_">>,
       <<"_", "_", "g", "e", "t", "s", "t", "a", "t", "e", "_", "_">>,
       <<"_", "_", "r", "e", "d", "u", "c", "e", "_", "_">>,
       <<"_", "_", "r", "e", "d", "u", "c", "e", "_", "e", "x", "_", "_">>,
       <<"_", "_", "s", "i", "z", "e", "o", "f", "_", "_">>,
       <<"_", "_", "i", "n", "i", "t", "_", "s", "u", "b", "c", "l", "a", "s", "s", "_", "_">>,
       <<"_", "_", "s", "u", "b", "c", "l", "a", "s", "s", "h", "o", "o", "k", "_", "_">>,
       <<"_", "_", "n", "e", "w", "_", "_">>,
       <<"_", "_", "d", "o", "c", "_", "_">>,
       <<"_", "_", "m", "o", "d", "u", "l", "e", "_", "_">>,
       <<"_", "_", "c", "l", "a", "s", "s", "_", "_">>,
       <<"_", "_", "d", "i", "c", "t", "_", "_">>,
       <<"_", "_", "w", "e", "a", "k", "r", "e", "f", "_", "_">> >>

\* the name key as a str
NameChars(key) ==
    AttributeNameChars[CHOOSE i \in 1..Len(AttributeNames) : AttributeNames[i] = key]

\* key in d, for a dict kept as the sequence of its items
HasKey(d, key) == \E j \in 1..Len(d) : d[j][1] = key

\* d[key]
ItemValue(d, key) == d[CHOOSE j \in 1..Len(d) : d[j][1] = key][2]

\* d[key] = value
SetItem(d, key, value) ==
    IF HasKey(d, key)
    THEN [d EXCEPT ![CHOOSE j \in 1..Len(d) : d[j][1] = key] = <<key, value>>]
    ELSE Append(d, <<key, value>>)

\* hasattr(book, key)
hasattr(book, key) == IsDataAttribute(key) \/ key \in ClassAttributes

\* book.method is the method of the class: no item of the __dict__ hides it
is_method(book, method) == ~HasKey(book.extra, method)

\* the name of the class as repr writes it: with its module, unless that
\* is builtins
QualifiedName(env) ==
    IF env.module = <<"b", "u", "i", "l", "t", "i", "n", "s">>
    THEN <<"B", "o", "o", "k">>
    ELSE env.module \o <<".">> \o <<"B", "o", "o", "k">>

\* repr(book) for the book with id i, which is object.__repr__
ObjectRepr(i, env) ==
    <<"<">> \o QualifiedName(env) \o <<" ", "o", "b", "j", "e", "c", "t", " ", "a", "t", " ", "0", "x">>
        \o env.book_at[i + 1] \o <<">">>

\* repr(Book)
ClassRepr(env) == <<"<", "c", "l", "a", "s", "s", " ", "'">> \o QualifiedName(env) \o <<"'", ">">>

\* repr(getattr(book, key)) for a data attribute
DataRepr(book, key) ==
    IF IsNone(key, book[key]) THEN <<"N", "o", "n", "e">>
    ELSE IF key = "tags" THEN ListRepr(book.tags)
    ELSE IF key \in IntFields THEN OptIntRepr(book[key])
    ELSE StrRepr(book[key])

\* repr(vars(book))
DictRepr(book) ==
    LET item(key, value) == StrRepr(NameChars(key)) \o <<":", " ">> \o value
        items ==
            [k \in 1..Len(DataAttributes) |->
                item(DataAttributes[k], DataRepr(book, DataAttributes[k]))]
            \o [k \in 1..Len(book.extra) |->
                item(book.extra[k][1], OptIntRepr(book.extra[k][2]))]
    IN  <<"{">> \o Join(<<",", " ">>, items) \o <<"}">>

\* str(getattr(book, field)) for the book with id i and a name of the class
\* that nothing in the __dict__ hides, but __weakref__, which is None.  env
\* is what the interpreter decides: the name of the module that holds Book
\* and the addresses of the books, of Book and of object.
ClassAttributeStr(book, i, field, env) ==
    CASE field \in InstanceMethods ->
            <<"<", "b", "o", "u", "n", "d", " ", "m", "e", "t", "h", "o", "d", " ", "B", "o", "o", "k", ".">> \o NameChars(field) \o <<" ", "o", "f", " ">>
                \o ObjectRepr(i, env) \o <<">">>
      [] field \in ClassMethods ->
            <<"<", "b", "o", "u", "n", "d", " ", "m", "e", "t", "h", "o", "d", " ", "B", "o", "o", "k", ".">> \o NameChars(field) \o <<" ", "o", "f", " ">>
                \o ClassRepr(env) \o <<">">>
      [] field \in MethodWrappers ->
            <<"<", "m", "e", "t", "h", "o", "d", "-", "w", "r", "a", "p", "p", "e", "r", " ", "'">> \o NameChars(field)
                \o <<"'", " ", "o", "f", " ", "B", "o", "o", "k", " ", "o", "b", "j", "e", "c", "t", " ", "a", "t", " ", "0", "x">>
                \o env.book_at[i + 1] \o <<">">>
      [] field \in BuiltinMethods ->
            <<"<", "b", "u", "i", "l", "t", "-", "i", "n", " ", "m", "e", "t", "h", "o", "d", " ">> \o NameChars(field)
                \o <<" ", "o", "f", " ", "B", "o", "o", "k", " ", "o", "b", "j", "e", "c", "t", " ", "a", "t", " ", "0", "x">>
                \o env.book_at[i + 1] \o <<">">>
      [] field \in TypeMethods ->
            <<"<", "b", "u", "i", "l", "t", "-", "i", "n", " ", "m", "e", "t", "h", "o", "d", " ">> \o NameChars(field)
                \o <<" ", "o", "f", " ", "t", "y", "p", "e", " ", "o", "b", "j", "e", "c", "t", " ", "a", "t", " ", "0", "x">>
                \o env.class_at \o <<">">>
      [] field = "__new__" ->
            <<"<", "b", "u", "i", "l", "t", "-", "i", "n", " ", "m", "e", "t", "h", "o", "d", " ">> \o NameChars(field)
                \o <<" ", "o", "f", " ", "t", "y", "p", "e", " ", "o", "b", "j", "e", "c", "t", " ", "a", "t", " ", "0", "x">>
                \o env.object_at \o <<">">>
      [] field = "__class__" -> ClassRepr(env)
      [] field = "__dict__" -> DictRepr(book)
      [] field = "__doc__" -> BookDoc
      [] field = "__module__" -> env.module

RECURSIVE update_from(_, _, _)
\* the loop of Library.update_book on one book from the k-th item of kwargs
\* on: the book it leaves, and the exception setattr raised ("" for none)
update_from(book, kwargs, k) ==
    IF k > Len(kwargs) THEN [book |-> book, err |-> ""]
    ELSE LET key == kwargs[k][1]
             value == kwargs[k][2]
         IN  IF IsDataAttribute(key)
             THEN update_from([book EXCEPT ![key] = value], kwargs, k + 1)
             ELSE IF key \in {"__class__", "__dict__"}
                  THEN \* the value is no class and no dict
                       [book |-> book, err |-> "TypeError"]
             ELSE IF key = "__weakref__"
                  THEN \* not writable
                       [book |-> book, err |-> "AttributeError"]
             ELSE IF key \in ClassAttributes
                  THEN \* hasattr(book, key): the value goes into the __dict__
                       \* and hides the attribute of the class
                       update_from([book EXCEPT !.extra = SetItem(@, key, value)],
                                   kwargs, k + 1)
             ELSE update_from(book, kwargs, k + 1)

\* the loop of Library.update_book on one book: setattr for every key of
\* kwargs the book has as an attribute
update_attrs(book, kwargs) == update_from(book, kwargs, 1)

\* value = getattr(book, field); value is not None and query in
\* str(value).lower(), for the book with id i and an attribute it has
value_matches(book, i, field, query, env) ==
    IF HasKey(book.extra, field)
    THEN LET value == ItemValue(book.extra, field)
         IN  value # NoneVal /\ IsSubstr(query, Lower(IntStr(value[1])))
    ELSE IF field \in IntFields
    THEN book[field] # NoneVal /\ IsSubstr(query, Lower(IntStr(book[field][1])))
    ELSE IF IsDataAttribute(field)
    THEN ~IsNone(field, book[field]) /\ IsSubstr(query, Lower(book[field]))
    ELSE IF field = "__weakref__"
    THEN FALSE
    ELSE IsSubstr(query, Lower(ClassAttributeStr(book, i, field, env)))

\* any(query in tag.lower() for tag in book.tags), for tags that are a
\* list
tags_match(book, query) ==
    /\ ~tags_raise(book)
    /\ \E t \in 1..Len(book.tags) : IsSubstr(query, Lower(book.tags[t]))

\* the tests of the inner loop of Library.search_books for one field
field_matches(book, i, field, query, env) ==
    IF field = "tags" THEN tags_match(book, query)
    ELSE IF hasattr(book, field) THEN value_matches(book, i, field, query, env)
    ELSE FALSE

RECURSIVE scan_fields_without_break(_, _, _, _, _, _)
\* a faulty inner loop of search_books: no break after the append
scan_fields_without_break(book, i, fields, k, query, env) ==
    IF k > Len(fields) THEN <<>>
    ELSE (IF field_matches(book, i, fields[k], query, env) THEN <<i>> ELSE <<>>)
            \o scan_fields_without_break(book, i, fields, k + 1, query, env)

RECURSIVE scan_fields(_, _, _, _, _, _)
\* the inner loop of Library.search_books from the k-th field on: what it
\* appends to results for the book with id i
scan_fields(book, i, fields, k, query, env) ==
    IF k > Len(fields) THEN <<>>
    ELSE IF field_matches(book, i, fields[k], query, env) THEN <<i>>
    ELSE scan_fields(book, i, fields, k + 1, query, env)

RECURSIVE scan_books(_, _, _, _, _)
\* the outer loop of Library.search_books from the book with id i on
scan_books(bs, i, fields, query, env) ==
    IF i >= Len(bs) THEN <<>>
    ELSE scan_fields(bs[i + 1], i, fields, 1, query, env)
            \o scan_books(bs, i + 1, fields, query, env)

RECURSIVE fields_raise(_, _, _, _, _, _)
\* the inner loop of Library.search_books from the k-th field on raises
\* TypeError: before any field matches it comes to the tags of a book
\* that has None for them
fields_raise(book, i, fields, k, query, env) ==
    IF k > Len(fields) THEN FALSE
    ELSE IF fields[k] = "tags" /\ tags_raise(book) THEN TRUE
    ELSE IF field_matches(book, i, fields[k], query, env) THEN FALSE
    ELSE fields_raise(book, i, fields, k + 1, query, env)

DefaultSearchFields ==
    <<"title", "author", "isbn", "genre", "publisher", "description", "tags">>

\* Library.search_books; fields is <<>> for None
search_books(bs, query, fields, env) ==
    scan_books(bs, 0, IF fields = NoneVal THEN DefaultSearchFields ELSE fields[1],
               Lower(query), env)

\* Library.search_books raises TypeError
search_raises(bs, query, fields, env) ==
    \E i \in 0..(Len(bs) - 1) :
        fields_raise(bs[i + 1], i,
                     IF fields = NoneVal THEN DefaultSearchFields ELSE fields[1],
                     1, Lower(query), env)

\* getattr(book, key) != value, for an attribute the book has
attr_differs(book, key, value, env) ==
    IF HasKey(book.extra, key) THEN ItemValue(book.extra, key) # value
    ELSE IF IsDataAttribute(key) THEN book[key] # value
    ELSE IF key = "__doc__" THEN BookDoc # value
    ELSE IF key = "__module__" THEN env.module # value
    ELSE IF key = "__weakref__" THEN NoneVal # value
    ELSE \* a method, the class or the __dict__ is equal to no value
         TRUE

\* faulty bounds in filter_books: year_from and rating_from compared with <=
predicate_fails_exclusive(book, key, value, env) ==
    IF key = "year_from" /\ book.year # NoneVal THEN book.year[1] <= value
    ELSE IF key = "year_to" /\ book.year # NoneVal THEN book.year[1] > value
    ELSE IF key = "rating_from" /\ book.rating # NoneVal THEN book.rating[1] <= value
    ELSE IF key = "rating_to" /\ book.rating # NoneVal THEN book.rating[1] > value
    ELSE IF hasattr(book, key) THEN attr_differs(book, key, value, env)
    ELSE TRUE

\* a faulty filter_books: a range key is skipped when the book has no value
\* for it
predicate_fails_skipping_none(book, key, value, env) ==
    IF key = "year_from" THEN book.year # NoneVal /\ book.year[1] < value
    ELSE IF key = "year_to" THEN book.year # NoneVal /\ book.year[1] > value
    ELSE IF key = "rating_from" THEN book.rating # NoneVal /\ book.rating[1] < value
    ELSE IF key = "rating_to" THEN book.rating # NoneVal /\ book.rating[1] > value
    ELSE IF hasattr(book, key) THEN attr_differs(book, key, value, env)
    ELSE TRUE

\* a faulty filter_books: a key the book does not have is skipped
predicate_fails_skipping_unknown(book, key, value, env) ==
    IF key = "year_from" /\ book.year # NoneVal THEN book.year[1] < value
    ELSE IF key = "year_to" /\ book.year # NoneVal THEN book.year[1] > value
    ELSE IF key = "rating_from" /\ book.rating # NoneVal THEN book.rating[1] < value
    ELSE IF key = "rating_to" /\ book.rating # NoneVal THEN book.rating[1] > value
    ELSE IF hasattr(book, key) THEN attr_differs(book, key, value, env)
    ELSE FALSE

\* the body of the inner loop of Library.filter_books for one item of
\* kwargs: it sets match = False and breaks.  Every book has the attributes
\* year and rating, so hasattr(book, "year") and hasattr(book, "rating")
\* hold; value is an int for the four range keys and a value of the
\* attribute's type otherwise.
predicate_fails(book, key, value, env) ==
    IF key = "year_from" /\ book.year # NoneVal THEN book.year[1] < value
    ELSE IF key = "year_to" /\ book.year # NoneVal THEN book.year[1] > value
    ELSE IF key = "rating_from" /\ book.rating # NoneVal THEN book.rating[1] < value
    ELSE IF key = "rating_to" /\ book.rating # NoneVal THEN book.rating[1] > value
    ELSE IF hasattr(book, key)
         THEN \* book_value != value
              attr_differs(book, key, value, env)
    ELSE \* no such attribute
         TRUE

RECURSIVE scan_predicates(_, _, _, _)
\* the inner loop of Library.filter_books from the k-th item of kwargs on:
\* the value of match when the loop ends; kwargs is the sequence of its
\* (key, value) items
scan_predicates(book, kwargs, k, env) ==
    IF k > Len(kwargs) THEN TRUE
    ELSE IF predicate_fails(book, kwargs[k][1], kwargs[k][2], env) THEN FALSE
    ELSE scan_predicates(book, kwargs, k + 1, env)

RECURSIVE filter_from(_, _, _, _)
\* the outer loop of Library.filter_books from the book with id i on
filter_from(bs, i, kwargs, env) ==
    IF i >= Len(bs) THEN <<>>
    ELSE (IF scan_predicates(bs[i + 1], kwargs, 1, env) THEN <<i>> ELSE <<>>)
            \o filter_from(bs, i + 1, kwargs, env)

\* Library.filter_books
filter_books(bs, kwargs, env) == filter_from(bs, 0, kwargs, env)

----------------------------------------------------------------------------
(* class Library: the pure part of each method *)

DefaultName == "My Personal Library"
DefaultFilePath == "library_data.json"

\* 0 <= book_id < len(self.books)
valid_id(bs, book_id) == 0 <= book_id /\ book_id < Len(bs)

\* a faulty loop of Library.add_book: title and author are compared as they
\* are written
RECURSIVE check_duplicate_exact_case(_, _, _)
check_duplicate_exact_case(bs, book, k) ==
    IF k > Len(bs) THEN ""
    ELSE IF bs[k].title = book.title /\ bs[k].author = book.author THEN "ValueError"
    ELSE check_duplicate_exact_case(bs, book, k + 1)

RECURSIVE check_duplicate(_, _, _)
\* the loop of Library.add_book from the k-th existing book on: the
\* exception it raises, "" for none.  None has no lower(): the title of the
\* existing book is lowered first, then that of book, and the authors only
\* when the titles are equal.
check_duplicate(bs, book, k) ==
    IF k > Len(bs) THEN ""
    ELSE IF bs[k].title = NoneStr \/ book.title = NoneStr THEN "AttributeError"
    ELSE IF Lower(bs[k].title) # Lower(book.title) THEN check_duplicate(bs, book, k + 1)
    ELSE IF bs[k].author = NoneStr \/ book.author = NoneStr THEN "AttributeError"
    ELSE IF Lower(bs[k].author) = Lower(book.author) THEN "ValueError"
    ELSE check_duplicate(bs, book, k + 1)

\* the loop of Library.add_book finds a duplicate: some existing book has
\* the title and the author of book, both compared in lower case
has_duplicate(bs, book) == check_duplicate(bs, book, 1) = "ValueError"

\* d[key] = d.get(key, 0) + 1, for a dict kept as the sequence of its
\* (key, count) items in insertion order
Increment(d, key) ==
    IF \E j \in 1..Len(d) : d[j][1] = key
    THEN [d EXCEPT ![CHOOSE j \in 1..Len(d) : d[j][1] = key] = <<key, @[2] + 1>>]
    ELSE Append(d, <<key, 1>>)

RECURSIVE count_tags(_, _, _)
\* for tag in book.tags: the tags dict after the tags from the k-th on
count_tags(d, tags, k) ==
    IF k > Len(tags) THEN d ELSE count_tags(Increment(d, tags[k]), tags, k + 1)

RECURSIVE InsertByCount(_, _)
\* item put into a list in descending order of count, behind the items
\* that have its count
InsertByCount(sorted, item) ==
    IF sorted = <<>> THEN <<item>>
    ELSE IF Head(sorted)[2] >= item[2]
         THEN <<Head(sorted)>> \o InsertByCount(Tail(sorted), item)
         ELSE <<item>> \o sorted

RECURSIVE sorted_by_count(_)
\* dict(sorted(d.items(), key=lambda x: x[1], reverse=True)): descending
\* count, items of equal count in their previous order
sorted_by_count(d) ==
    IF d = <<>> THEN <<>>
    ELSE InsertByCount(sorted_by_count(SubSeq(d, 1, Len(d) - 1)), d[Len(d)])

\* the dict get_statistics starts from.  The ratings dict is kept as the
\* sequence of its integer keys with their counts (stars) and the count
\* under "unrated"; avg_rating is in hundredths; oldest_book and
\* newest_book are None or a (title, year) pair.
initial_stats(bs) ==
    [ total_books     |-> Len(bs),
      available_books |-> Cardinality({i \in 1..Len(bs) : bs[i].status = Available}),
      borrowed_books  |-> Cardinality({i \in 1..Len(bs) : bs[i].status = Borrowed}),
      genres          |-> <<>>,
      authors         |-> <<>>,
      years           |-> <<>>,
      ratings         |-> [ stars   |-> <<<<1, 0>>, <<2, 0>>, <<3, 0>>, <<4, 0>>, <<5, 0>>>>,
                            unrated |-> 0 ],
      tags            |-> <<>>,
      avg_rating      |-> 0,
      oldest_book     |-> NoneVal,
      newest_book     |-> NoneVal ]

\* if book.year: / if book.rating: an int that is neither None nor 0
Truthy(v) == v # NoneVal /\ v[1] # 0

\* if book.genre: a str that is neither None nor ""
TruthyStr(v) == v # NoneStr /\ v # <<>>

\* a faulty get_statistics: a rated book is counted under "unrated" too
count_book_unrated_always(acc, book) ==
    LET st == acc.stats
        s1 == IF TruthyStr(book.genre)
              THEN [st EXCEPT !.genres = Increment(@, book.genre)] ELSE st
        s2 == [s1 EXCEPT !.authors = Increment(@, book.author)]
        s3 == IF Truthy(book.year)
              THEN [s2 EXCEPT
                      !.years = Increment(@, book.year[1]),
                      !.oldest_book =
                          IF @ = NoneVal \/ book.year[1] < @[1][2]
                          THEN Some(<<book.title, book.year[1]>>) ELSE @,
                      !.newest_book =
                          IF @ = NoneVal \/ book.year[1] > @[1][2]
                          THEN Some(<<book.title, book.year[1]>>) ELSE @]
              ELSE s2
        s4 == IF Truthy(book.rating)
              THEN [s3 EXCEPT !.ratings.stars = Increment(@, book.rating[1]),
                              !.ratings.unrated = @ + 1]
              ELSE [s3 EXCEPT !.ratings.unrated = @ + 1]
        s5 == [s4 EXCEPT !.tags = count_tags(@, book.tags, 1)]
    IN  [ stats        |-> s5,
          total_rating |-> acc.total_rating
                             + (IF Truthy(book.rating) THEN book.rating[1] ELSE 0),
          rated_books  |-> acc.rated_books
                             + (IF Truthy(book.rating) THEN 1 ELSE 0) ]

\* a faulty get_statistics: the oldest book is replaced on year <= oldest
count_book_oldest_on_tie(acc, book) ==
    LET st == acc.stats
        s1 == IF TruthyStr(book.genre)
              THEN [st EXCEPT !.genres = Increment(@, book.genre)] ELSE st
        s2 == [s1 EXCEPT !.authors = Increment(@, book.author)]
        s3 == IF Truthy(book.year)
              THEN [s2 EXCEPT
                      !.years = Increment(@, book.year[1]),
                      !.oldest_book =
                          IF @ = NoneVal \/ book.year[1] <= @[1][2]
                          THEN Some(<<book.title, book.year[1]>>) ELSE @,
                      !.newest_book =
                          IF @ = NoneVal \/ book.year[1] > @[1][2]
                          THEN Some(<<book.title, book.year[1]>>) ELSE @]
              ELSE s2
        s4 == IF Truthy(book.rating)
              THEN [s3 EXCEPT !.ratings.stars = Increment(@, book.rating[1])]
              ELSE [s3 EXCEPT !.ratings.unrated = @ + 1]
        s5 == [s4 EXCEPT !.tags = count_tags(@, book.tags, 1)]
    IN  [ stats        |-> s5,
          total_rating |-> acc.total_rating
                             + (IF Truthy(book.rating) THEN book.rating[1] ELSE 0),
          rated_books  |-> acc.rated_books
                             + (IF Truthy(book.rating) THEN 1 ELSE 0) ]

\* the body of the loop of get_statistics for one book; acc holds stats,
\* total_rating and rated_books
count_book(acc, book) ==
    LET st == acc.stats
        \* count genres
        s1 == IF TruthyStr(book.genre)
              THEN [st EXCEPT !.genres = Increment(@, book.genre)] ELSE st
        \* count authors
        s2 == [s1 EXCEPT !.authors = Increment(@, book.author)]
        \* count years, track the oldest and the newest book
        s3 == IF Truthy(book.year)
              THEN [s2 EXCEPT
                      !.years = Increment(@, book.year[1]),
                      !.oldest_book =
                          IF @ = NoneVal \/ book.year[1] < @[1][2]
                          THEN Some(<<book.title, book.year[1]>>) ELSE @,
                      !.newest_book =
                          IF @ = NoneVal \/ book.year[1] > @[1][2]
                          THEN Some(<<book.title, book.year[1]>>) ELSE @]
              ELSE s2
        \* count ratings
        s4 == IF Truthy(book.rating)
              THEN [s3 EXCEPT !.ratings.stars = Increment(@, book.rating[1])]
              ELSE [s3 EXCEPT !.ratings.unrated = @ + 1]
        \* count tags
        s5 == [s4 EXCEPT !.tags = count_tags(@, book.tags, 1)]
    IN  [ stats        |-> s5,
          total_rating |-> acc.total_rating
                             + (IF Truthy(book.rating) THEN book.rating[1] ELSE 0),
          rated_books  |-> acc.rated_books
                             + (IF Truthy(book.rating) THEN 1 ELSE 0) ]

RECURSIVE count_books(_, _, _)
\* the loop of get_statistics from the k-th book on
count_books(acc, bs, k) ==
    IF k > Len(bs) THEN acc
    ELSE LET counted == count_book(acc, bs[k])
         IN  \* rated_books never exceeds the books counted; the test has the
             \* book counted before the loop goes on
             IF counted.rated_books <= k THEN count_books(counted, bs, k + 1)
             ELSE counted

\* Library.get_statistics raises TypeError: the loop comes to a book whose
\* tags are None
statistics_raises(bs) == \E i \in 1..Len(bs) : tags_raise(bs[i])

\* Library.get_statistics
get_statistics(bs) ==
    IF bs = <<>> THEN initial_stats(<<>>)
    ELSE LET acc == count_books([stats |-> initial_stats(bs), total_rating |-> 0,
                                 rated_books |-> 0], bs, 1)
         IN  [ acc.stats EXCEPT
                 !.avg_rating = IF acc.rated_books > 0
                                THEN Round2(acc.total_rating, acc.rated_books)
                                ELSE 0,
                 !.genres  = sorted_by_count(@),
                 !.authors = sorted_by_count(@),
                 !.years   = sorted_by_count(@),
                 !.tags    = sorted_by_count(@) ]

\* the try statement of Library.load_from_file on the document doc of a
\* file that exists, in a library with the name nm and the books bs: the
\* name and the books the library has afterwards, and whether an except
\* clause called st.error
load_document(doc, nm, bs, now) ==
    CASE doc.kind = "garbage" ->
            \* json.load raises JSONDecodeError, caught
            [name |-> nm, books |-> bs, st_error |-> TRUE]
      [] doc.kind = "array" ->
            \* data.get raises AttributeError, caught
            [name |-> nm, books |-> bs, st_error |-> TRUE]
      [] doc.kind = "object" ->
            LET data == doc.data
                docs == Get(data, "books", <<>>)
            IN  IF \A i \in 1..Len(docs) : from_dict_ok(docs[i])
                THEN [ name     |-> Get(data, "name", DefaultName),
                       books    |-> [i \in 1..Len(docs) |-> from_dict(docs[i], now)],
                       st_error |-> FALSE ]
                ELSE \* self.name is assigned, then from_dict raises
                     \* KeyError, caught
                     [ name     |-> Get(data, "name", DefaultName),
                       books    |-> bs,
                       st_error |-> TRUE ]

\* [book.to_dict() for book in self.books] raises no exception: to_dict is
\* the method on every book
serializable(bs) == \A i \in 1..Len(bs) : is_method(bs[i], "to_dict")

\* the document Library.save_to_file writes
saved_document(nm, bs) ==
    [ kind |-> "object",
      data |-> [name |-> nm, books |-> [i \in 1..Len(bs) |-> to_dict(bs[i])]] ]

----------------------------------------------------------------------------
(* The environment: the clock, the files on disk, the arguments of the calls *)

\* 2024-02-28, the day the run starts
Today0 == 738944

T_Du == <<"D", "u">>
T_dU == <<"d", "U">>
T_E  == <<"E">>
A_H  == <<"H">>
A_h  == <<"h">>
Tag_sf == <<"s", "f">>
Tag_x  == <<"x">>
B_Al   == <<"A", "l">>

Paths ==
    {"library_data.json", "good.json", "dup.json", "broken.json",
     "garbage.json", "list.json", "new.json", "nodir/x.json"}

\* open(path, 'w') succeeds
Writable(path) == path # "nodir/x.json"

DocMissing == [kind |-> "missing"]
DocGarbage == [kind |-> "garbage"]

\* a document that is JSON but not an object: a list
DocArray == [kind |-> "array"]

DocGood ==
    [ kind |-> "object",
      data |-> [ name  |-> "Home",
                 books |-> << [ title |-> T_Du, author |-> A_H, year |-> Some(1965),
                                rating |-> Some(4), tags |-> <<Tag_sf>>,
                                date_added |-> Strftime(Today0 - 54) ],
                              [ title |-> T_E, author |-> A_h, genre |-> <<"F">>,
                                status |-> Borrowed, borrowed_by |-> B_Al,
                                borrowed_date |-> Strftime(Today0 - 8),
                                due_date |-> Strftime(Today0 + 6) ],
                              [ title |-> <<"u", "d">>, author |-> <<"K", "u">> ] >> ] ]

DocDup ==
    [ kind |-> "object",
      data |-> [ books |-> << [title |-> T_Du, author |-> A_H, isbn |-> NoneStr,
                               genre |-> NoneStr, date_added |-> NoneStr,
                               tags |-> NoneList],
                              [title |-> T_dU, author |-> A_h] >> ] ]

DocBroken ==
    [ kind |-> "object",
      data |-> [ name  |-> "Broken",
                 books |-> << [title |-> T_E, author |-> A_H],
                              [author |-> A_H] >> ] ]

InitialFiles ==
    [ p \in Paths |->
        CASE p = "good.json"    -> DocGood
          [] p = "dup.json"     -> DocDup
          [] p = "broken.json"  -> DocBroken
          [] p = "garbage.json" -> DocGarbage
          [] p = "list.json"    -> DocArray
          [] OTHER              -> DocMissing ]

\* keyword arguments of Book(...)
CtorInputs ==
    { [title |-> T_Du, author |-> A_H],
      [title |-> T_dU, author |-> A_h, year |-> Some(1965), rating |-> Some(4),
       tags |-> <<Tag_sf>>],
      [title |-> <<>>, author |-> A_H],
      [title |-> T_E, author |-> <<>>, genre |-> <<"F">>],
      [title |-> T_E, author |-> A_H, status |-> Borrowed,
       tags |-> <<Tag_x, Tag_x>>, date_added |-> Strftime(Today0 - 54)] }

\* keyword arguments of update_book(book_id, ...), as the sequence of their
\* items
UpdateInputs ==
    { << <<"title", T_dU>>, <<"author", A_h>> >>,
      << <<"status", Borrowed>>, <<"year", Some(1999)>>, <<"bogus", Some(1)>> >>,
      << <<"tags", <<Tag_x, Tag_x>> >>, <<"date_added", Strftime(Today0 - 1)>>,
         <<"isbn", NoneStr>> >>,
      << <<"lend", Some(1)>>, <<"to_dict", Some(1)>>, <<"title", T_E>> >>,
      << <<"author", A_h>>, <<"__class__", Some(1)>>, <<"title", T_E>> >> }

\* (borrower, days) of lend: loans of some days, one whose due date is
\* after datetime.max, and one given back long ago, in a year of three
\* digits
LendInputs == { <<B_Al, 2>>, <<<<>>, 14>>, <<B_Al, 3000000>>, <<B_Al, 0 - 400000>> }

TagInputs == {Tag_sf}

\* the book ids tried: each valid id, -1 and len(self.books)
IdInputs == (0 - 1)..Len(books)

\* an optional path argument
LoadPathInputs ==
    {NoneVal} \cup {Some(p) : p \in Paths \ {DefaultFilePath, "nodir/x.json"}}
SavePathInputs == {NoneVal, Some("library_data.json"), Some("nodir/x.json")}

\* what the interpreter decides: the module that holds Book ("__main__" when
\* the file is run, its name when the file is imported) and, in hexadecimal,
\* the addresses of the books by id, of the class Book and of the class object
EnvInputs ==
    { [ module    |-> <<"p", "e", "r", "s", "o", "n", "a", "l", "_", "l", "i", "b", "r", "a", "r", "y", "_", "m", "a", "n", "a", "g", "e", "r">>,
        book_at   |-> << <<"7", "f", "3", "b", "5", "c", "0", "a", "1", "d", "9", "0">>,
                         <<"7", "f", "3", "b", "5", "c", "0", "a", "2", "b", "1", "0">>,
                         <<"7", "f", "3", "b", "5", "c", "0", "f", "e", "8", "5", "0">>,
                         <<"7", "f", "3", "b", "5", "c", "1", "0", "a", "a", "1", "0">> >>,
        class_at  |-> <<"5", "5", "d", "0", "c", "8", "a", "3", "b", "2", "f", "0">>,
        object_at |-> <<"7", "f", "3", "b", "5", "d", "9", "c", "4", "e", "a", "0">> ],
      [ module    |-> <<"_", "_", "m", "a", "i", "n", "_", "_">>,
        book_at   |-> << <<"1", "0", "4", "e", "2", "b", "d", "1", "0">>,
                         <<"1", "0", "4", "e", "2", "b", "e", "5", "0">>,
                         <<"1", "0", "4", "f", "0", "a", "0", "9", "0">>,
                         <<"1", "0", "4", "f", "0", "a", "1", "d", "0">> >>,
        class_at  |-> <<"1", "3", "b", "8", "0", "d", "1", "f", "0">>,
        object_at |-> <<"1", "0", "2", "c", "5", "1", "f", "4", "8">> ] }

\* an interpreter, for the calls whose outcome does not depend on it
AnyEnv == CHOOSE env \in EnvInputs : TRUE

----------------------------------------------------------------------------
(* The state machine *)

\* no user interface: the library is driven by direct calls
NoUI == session = NoneVal /\ page = NoneVal /\ chosen = NoneVal

NoCall == [op |-> "init", args |-> <<>>, err |-> "", ret |-> <<>>, st_error |-> FALSE]

\* what a call leaves in last: what was called with what, the exception it
\* raised to its caller ("" for none), what it returned, and whether it
\* reported an error through st.error
Called(op, args, err, ret, st_error) ==
    /\ nops < MaxOps
    /\ nops' = nops + 1
    /\ last' = [op |-> op, args |-> args, err |-> err, ret |-> ret,
                st_error |-> st_error]

\* Library()
Init ==
    /\ name = DefaultName
    /\ books = <<>>
    /\ file_path = DefaultFilePath
    /\ files = InitialFiles
    /\ today = Today0
    /\ last = NoCall
    /\ nops = 0
    /\ NoUI

\* a day passes between two calls
Tick ==
    /\ today' = today + 1
    /\ Called("tick", <<>>, "", <<>>, FALSE)
    /\ UNCHANGED <<name, books, file_path, files>>
    /\ UNCHANGED uivars

\* book = Book(**args); library.add_book(book)
add_book(args) ==
    LET book == BookInit(args, today)
    IN  /\ Len(books) < MaxBooks
        /\ IF check_duplicate(books, book, 1) # ""
           THEN \* ValueError for a duplicate, AttributeError for lower() of
                \* a title or an author that is None
                /\ books' = books
                /\ Called("add_book", <<book>>, check_duplicate(books, book, 1),
                          <<>>, FALSE)
           ELSE /\ books' = Append(books, book)
                /\ Called("add_book", <<book>>, "", <<>>, FALSE)
        /\ UNCHANGED <<name, file_path, files, today>>
        /\ UNCHANGED uivars

\* library.remove_book(book_id)
remove_book(book_id) ==
    /\ IF valid_id(books, book_id)
       THEN /\ books' = RemoveAt(books, book_id + 1)
            /\ Called("remove_book", <<book_id>>, "", <<books[book_id + 1]>>, FALSE)
       ELSE /\ books' = books
            /\ Called("remove_book", <<book_id>>, "ValueError", <<>>, FALSE)
    /\ UNCHANGED <<name, file_path, files, today>>
    /\ UNCHANGED uivars

\* library.update_book(book_id, **kwargs)
update_book(book_id, kwargs) ==
    /\ IF valid_id(books, book_id)
       THEN LET r == update_attrs(books[book_id + 1], kwargs)
            IN  /\ books' = [books EXCEPT ![book_id + 1] = r.book]
                /\ Called("update_book", <<book_id, kwargs>>, r.err, <<>>, FALSE)
       ELSE /\ books' = books
            /\ Called("update_book", <<book_id, kwargs>>, "ValueError", <<>>, FALSE)
    /\ UNCHANGED <<name, file_path, files, today>>
    /\ UNCHANGED uivars

\* book = library.get_book(book_id); book.lend(borrower, days)
lend_book(book_id, borrower, days) ==
    /\ IF ~valid_id(books, book_id)
       THEN \* get_book raises
            /\ books' = books
            /\ Called("lend", <<book_id, borrower, days>>, "ValueError", <<>>, FALSE)
       ELSE IF ~is_method(books[book_id + 1], "lend")
         THEN \* book.lend is no method: the call raises
              /\ books' = books
              /\ Called("lend", <<book_id, borrower, days>>, "TypeError", <<>>, FALSE)
         ELSE IF lend_ok(books[book_id + 1])
         THEN /\ books' = [books EXCEPT ![book_id + 1] = lend(@, borrower, days, today)]
              /\ Called("lend", <<book_id, borrower, days>>,
                        IF lend_overflows(days, today) THEN "OverflowError" ELSE "",
                        <<>>, FALSE)
         ELSE /\ books' = books
              /\ Called("lend", <<book_id, borrower, days>>, "ValueError", <<>>, FALSE)
    /\ UNCHANGED <<name, file_path, files, today>>
    /\ UNCHANGED uivars

\* book = library.get_book(book_id); book.return_book()
return_a_book(book_id) ==
    /\ IF ~valid_id(books, book_id)
       THEN \* get_book raises
            /\ books' = books
            /\ Called("return_book", <<book_id>>, "ValueError", <<>>, FALSE)
       ELSE IF ~is_method(books[book_id + 1], "return_book")
         THEN \* book.return_book is no method: the call raises
              /\ books' = books
              /\ Called("return_book", <<book_id>>, "TypeError", <<>>, FALSE)
         ELSE IF return_ok(books[book_id + 1])
         THEN /\ books' = [books EXCEPT ![book_id + 1] = return_book(@)]
              /\ Called("return_book", <<book_id>>, "", <<>>, FALSE)
         ELSE /\ books' = books
              /\ Called("return_book", <<book_id>>, "ValueError", <<>>, FALSE)
    /\ UNCHANGED <<name, file_path, files, today>>
    /\ UNCHANGED uivars

\* book = library.get_book(book_id); book.add_tag(tag)
add_a_tag(book_id, tag) ==
    /\ IF ~valid_id(books, book_id)
       THEN \* get_book raises
            /\ books' = books
            /\ Called("add_tag", <<book_id, tag>>, "ValueError", <<>>, FALSE)
       ELSE IF ~is_method(books[book_id + 1], "add_tag")
         THEN \* book.add_tag is no method: the call raises
              /\ books' = books
              /\ Called("add_tag", <<book_id, tag>>, "TypeError", <<>>, FALSE)
         ELSE /\ books' = [books EXCEPT ![book_id + 1] = add_tag(@, tag)]
              /\ Called("add_tag", <<book_id, tag>>,
                        IF tags_raise(books[book_id + 1]) THEN "TypeError" ELSE "",
                        <<>>, FALSE)
    /\ UNCHANGED <<name, file_path, files, today>>
    /\ UNCHANGED uivars

\* book = library.get_book(book_id); book.remove_tag(tag)
remove_a_tag(book_id, tag) ==
    /\ IF ~valid_id(books, book_id)
       THEN \* get_book raises
            /\ books' = books
            /\ Called("remove_tag", <<book_id, tag>>, "ValueError", <<>>, FALSE)
       ELSE IF ~is_method(books[book_id + 1], "remove_tag")
         THEN \* book.remove_tag is no method: the call raises
              /\ books' = books
              /\ Called("remove_tag", <<book_id, tag>>, "TypeError", <<>>, FALSE)
         ELSE /\ books' = [books EXCEPT ![book_id + 1] = remove_tag(@, tag)]
              /\ Called("remove_tag", <<book_id, tag>>,
                        IF tags_raise(books[book_id + 1]) THEN "TypeError" ELSE "",
                        <<>>, FALSE)
    /\ UNCHANGED <<name, file_path, files, today>>
    /\ UNCHANGED uivars

\* library.save_to_file(path)
save_to_file(path) ==
    LET fp == IF path # NoneVal THEN path[1] ELSE file_path
    IN  /\ file_path' = fp
        /\ IF ~serializable(books)
           THEN \* book.to_dict is no method: the call raises before open()
                /\ files' = files
                /\ Called("save_to_file", <<path>>, "TypeError", <<>>, FALSE)
           ELSE IF Writable(fp)
           THEN /\ files' = [files EXCEPT ![fp] = saved_document(name, books)]
                /\ Called("save_to_file", <<path>>, "", <<>>, FALSE)
           ELSE /\ files' = files
                /\ Called("save_to_file", <<path>>, "OSError", <<>>, FALSE)
        /\ UNCHANGED <<name, books, today>>
        /\ UNCHANGED uivars

\* a faulty Library.load_from_file: no os.path.exists test, open() raises
\* FileNotFoundError, caught by except Exception
load_from_file_without_exists(path) ==
    LET fp  == IF path # NoneVal THEN path[1] ELSE file_path
        doc == files[fp]
        r   == IF doc.kind = "missing"
               THEN [name |-> name, books |-> books, st_error |-> TRUE]
               ELSE load_document(doc, name, books, today)
    IN  /\ file_path' = fp
        /\ name' = r.name
        /\ books' = r.books
        /\ Called("load_from_file", <<path>>, "", <<>>, r.st_error)
        /\ UNCHANGED <<files, today>>
        /\ UNCHANGED uivars

\* a faulty Library.load_from_file: self.file_path is assigned only once the
\* file has been found
load_from_file_retargeting_late(path) ==
    LET fp  == IF path # NoneVal THEN path[1] ELSE file_path
        doc == files[fp]
        r   == IF doc.kind = "missing"
               THEN [name |-> name, books |-> books, st_error |-> FALSE]
               ELSE load_document(doc, name, books, today)
    IN  /\ file_path' = IF doc.kind = "missing" THEN file_path ELSE fp
        /\ name' = r.name
        /\ books' = r.books
        /\ Called("load_from_file", <<path>>, "", <<>>, r.st_error)
        /\ UNCHANGED <<files, today>>
        /\ UNCHANGED uivars

\* library.load_from_file(path)
load_from_file(path) ==
    LET fp  == IF path # NoneVal THEN path[1] ELSE file_path
        doc == files[fp]
        r   == IF doc.kind = "missing"
               THEN \* os.path.exists is false: return
                    [name |-> name, books |-> books, st_error |-> FALSE]
               ELSE load_document(doc, name, books, today)
    IN  /\ file_path' = fp
        /\ name' = r.name
        /\ books' = r.books
        /\ Called("load_from_file", <<path>>, "", <<>>, r.st_error)
        /\ UNCHANGED <<files, today>>
        /\ UNCHANGED uivars

Next ==
    \/ Tick
    \/ \E args \in CtorInputs : add_book(args)
    \/ \E id \in IdInputs : remove_book(id)
    \/ \E id \in IdInputs, kwargs \in UpdateInputs : update_book(id, kwargs)
    \/ \E id \in IdInputs, l \in LendInputs : lend_book(id, l[1], l[2])
    \/ \E id \in IdInputs : return_a_book(id)
    \/ \E id \in IdInputs, tag \in TagInputs : add_a_tag(id, tag)
    \/ \E id \in IdInputs, tag \in TagInputs : remove_a_tag(id, tag)
    \/ \E path \in SavePathInputs : save_to_file(path)
    \/ \E path \in LoadPathInputs : load_from_file(path)

Spec == Init /\ [][Next]_vars

----------------------------------------------------------------------------
(* Searching: search_books applied to the libraries the operations above    *)
(* can build                                                                *)

MaxSearchBooks == 2

\* a title whose lower case is not its ASCII lower case: the final sigma
T_ES == <<"É", "Σ">>

\* the books searched: books as the calls above make them, one with a title
\* outside ASCII, and one on which update_book has stored an attribute under
\* the name of a method
SampleBooks ==
    {BookInit(a, Today0) : a \in CtorInputs}
        \cup {from_dict(DocGood.data.books[3], Today0)}
        \cup {from_dict(DocDup.data.books[1], Today0)}
        \cup {BookInit([title |-> T_ES, author |-> A_h, location |-> <<"\t", "B", "o", "x">>],
                       Today0)}
        \cup {[from_dict(DocGood.data.books[2], Today0)
                    EXCEPT !.extra = << <<"to_dict", Some(1)>> >>]}

SampleLibraries ==
    UNION {[1..n -> SampleBooks] : n \in 0..MaxSearchBooks}

\* the arguments of search_books: the query, and the fields argument, which
\* is None or a list of attribute names
SearchInputs ==
    { << <<>>, NoneVal >>,
      << <<>>, Some(<<"title">>) >>,
      << <<>>, Some(<<"lend">>) >>,
      << <<"U">>, NoneVal >>,
      << <<"U">>, Some(<<"author", "title">>) >>,
      << <<"D", "U">>, Some(<<"title">>) >>,
      << <<"d", "u">>, NoneVal >>,
      << <<"d", "u">>, Some(<<>>) >>,
      << <<"S">>, NoneVal >>,
      << <<"S">>, Some(<<"tags", "year">>) >>,
      << <<"h">>, Some(<<"author", "title">>) >>,
      << <<"9">>, Some(<<"tags", "year">>) >>,
      << <<"1", "9", "6">>, Some(<<"tags", "year">>) >>,
      << <<"n">>, Some(<<"tags", "year">>) >>,
      << <<"n">>, NoneVal >>,
      << <<"N", "o">>, Some(<<"isbn", "genre">>) >>,
      << <<"4">>, Some(<<"bogus", "genre", "rating">>) >>,
      << <<"f">>, Some(<<"bogus", "genre", "rating">>) >>,
      << <<"a", "v">>, Some(<<"status">>) >>,
      << <<"s", "h">>, Some(<<"location">>) >>,
      << <<"\t">>, Some(<<"status", "location">>) >>,
      << <<"Σ">>, Some(<<"title">>) >>,
      << <<"É", "Σ">>, NoneVal >>,
      << <<"b", "o", "o", "k">>, Some(<<"to_dict">>) >>,
      << <<"1">>, Some(<<"to_dict">>) >>,
      << <<"b", "o", "o", "k">>, Some(<<"lend", "from_dict">>) >>,
      << <<"c", "l", "a", "s", "s">>, Some(<<"__doc__">>) >>,
      << <<"n">>, Some(<<"__weakref__">>) >>,
      << <<"M", "a", "i", "n">>, Some(<<"__class__", "__module__">>) >>,
      << <<"1", "d", "9", "0">>, Some(<<"__eq__", "__dir__">>) >>,
      << <<"t", "y", "p", "e">>, Some(<<"__new__", "__init_subclass__">>) >>,
      << <<"'", "É">>, Some(<<"__dict__">>) >>,
      << <<"d", "i", "c", "t", "'", ":", " ", "1">>, Some(<<"__dict__">>) >> }

SearchInit ==
    /\ name = DefaultName
    /\ books \in SampleLibraries
    /\ file_path = DefaultFilePath
    /\ files = InitialFiles
    /\ today = Today0
    /\ last = NoCall
    /\ nops = 0
    /\ NoUI

\* library.search_books(query, fields): it reads the library and changes
\* nothing, so one call on each library stands for every call on it
do_search(query, fields, env) ==
    /\ nops = 0
    /\ nops' = 1
    /\ last' = IF search_raises(books, query, fields, env)
               THEN [op |-> "search_books", args |-> <<query, fields, env>>,
                     err |-> "TypeError", ret |-> <<>>, st_error |-> FALSE]
               ELSE [op |-> "search_books", args |-> <<query, fields, env>>,
                     err |-> "",
                     ret |-> search_books(books, query, fields, env),
                     st_error |-> FALSE]
    /\ UNCHANGED <<name, books, file_path, files, today>>
    /\ UNCHANGED uivars

SearchNext ==
    \E s \in SearchInputs, env \in EnvInputs : do_search(s[1], s[2], env)

SpecSearch == SearchInit /\ [][SearchNext]_vars

----------------------------------------------------------------------------
(* Filtering: filter_books applied to libraries of books with and without   *)
(* year and rating                                                          *)

MaxFilterBooks == 2

\* keyword arguments of Book(...) for the books filtered
FilterCtorInputs ==
    { [title |-> T_Du, author |-> A_H, genre |-> <<"F">>, year |-> Some(1965),
       rating |-> Some(4)],
      [title |-> T_E, author |-> A_h, genre |-> <<"F">>, status |-> Borrowed],
      [title |-> <<"u", "d">>, author |-> A_H, year |-> Some(1950),
       rating |-> Some(2), tags |-> <<Tag_sf>>],
      [title |-> T_dU, author |-> A_h, year |-> Some(1999)],
      [title |-> T_E, author |-> A_H, rating |-> Some(5)] }

\* the books filtered, one of them with an attribute update_book has stored
\* under the name of a method
FilterBooks ==
    {BookInit(a, Today0) : a \in FilterCtorInputs}
        \cup {[BookInit([title |-> <<"N">>, author |-> A_H], Today0)
                    EXCEPT !.extra = << <<"lend", Some(1)>> >>]}
        \cup {update_attrs(BookInit([title |-> T_Du, author |-> A_h], Today0),
                            << <<"genre", NoneStr>>, <<"tags", NoneList>>,
                               <<"borrowed_by", NoneStr>> >>).book}

FilterLibraries == UNION {[1..n -> FilterBooks] : n \in 0..MaxFilterBooks}

\* the keyword arguments of filter_books, as the sequence of their items
FilterInputs ==
    { <<>>,
      << <<"year_from", 1950>>, <<"year_to", 1965>> >>,
      << <<"year_to", 1998>>, <<"year_from", 1951>> >>,
      << <<"year_from", 1966>> >>,
      << <<"rating_from", 2>>, <<"rating_to", 4>> >>,
      << <<"rating_to", 4>>, <<"genre", <<"F">> >> >>,
      << <<"year_from", 1960>>, <<"rating_from", 5>> >>,
      << <<"status", Available>> >>,
      << <<"genre", <<"F">> >>, <<"year", Some(1965)>> >>,
      << <<"author", A_H>>, <<"year", NoneVal>> >>,
      << <<"author", A_h>>, <<"tags", <<>> >> >>,
      << <<"genre", <<>> >>, <<"borrowed_by", <<>> >> >>,
      << <<"tags", NoneList>>, <<"genre", NoneStr>> >>,
      << <<"bogus", Some(1)>> >>,
      << <<"status", Available>>, <<"bogus", Some(1)>> >>,
      << <<"lend", Some(1)>> >>,
      << <<"__doc__", BookDoc>> >>,
      << <<"author", A_H>>,
         <<"__module__", <<"p", "e", "r", "s", "o", "n", "a", "l", "_", "l", "i", "b", "r", "a", "r", "y", "_", "m", "a", "n", "a", "g", "e", "r">> >> >>,
      << <<"__weakref__", NoneVal>>, <<"location", DefaultLocation>> >> }

FilterInit ==
    /\ name = DefaultName
    /\ books \in FilterLibraries
    /\ file_path = DefaultFilePath
    /\ files = InitialFiles
    /\ today = Today0
    /\ last = NoCall
    /\ nops = 0
    /\ NoUI

\* library.filter_books(**kwargs): it reads the library and changes nothing,
\* so one call on each library stands for every call on it
do_filter(kwargs, env) ==
    /\ nops = 0
    /\ nops' = 1
    /\ last' = [op |-> "filter_books", args |-> <<kwargs, env>>, err |-> "",
                ret |-> filter_books(books, kwargs, env), st_error |-> FALSE]
    /\ UNCHANGED <<name, books, file_path, files, today>>
    /\ UNCHANGED uivars

FilterNext == \E kwargs \in FilterInputs, env \in EnvInputs : do_filter(kwargs, env)

SpecFilter == FilterInit /\ [][FilterNext]_vars

----------------------------------------------------------------------------
(* Persistence: a library is saved, and a fresh Library reads the file      *)

MaxPersistBooks == 2

\* books made some weeks ago, and one of them lent today
PersistBooks ==
    {BookInit(a, Today0 - 54) : a \in CtorInputs}
        \cup {lend(BookInit([title |-> <<"u", "d">>, author |-> A_h,
                             year |-> Some(1950), pages |-> Some(7)], Today0 - 54),
                   B_Al, 14, Today0)}
        \cup {[BookInit([title |-> T_ES, author |-> A_h], Today0 - 54)
                    EXCEPT !.extra = << <<"lend", Some(1)>> >>]}

PersistLibraries == UNION {[1..n -> PersistBooks] : n \in 0..MaxPersistBooks}

PersistInit ==
    /\ name = "Home"
    /\ books \in PersistLibraries
    /\ file_path = DefaultFilePath
    /\ files = InitialFiles
    /\ today = Today0
    /\ last = NoCall
    /\ nops = 0
    /\ NoUI

\* the optional path argument of the fresh library's load_from_file
FreshPathInputs == {NoneVal, Some("good.json")}

\* fresh = Library(); fresh.load_from_file(path): the library of the state
\* stays as it is; the name and the books of the fresh one are what the
\* step returns
load_fresh(path) ==
    LET fp  == IF path # NoneVal THEN path[1] ELSE DefaultFilePath
        doc == files[fp]
        r   == IF doc.kind = "missing"
               THEN [name |-> DefaultName, books |-> <<>>, st_error |-> FALSE]
               ELSE load_document(doc, DefaultName, <<>>, today)
    IN  /\ Called("load_fresh", <<path>>, "", <<r.name, r.books>>, r.st_error)
        /\ UNCHANGED <<name, books, file_path, files, today>>
        /\ UNCHANGED uivars

PersistNext ==
    \/ Tick
    \/ \E path \in SavePathInputs : save_to_file(path)
    \/ \E path \in FreshPathInputs : load_fresh(path)

SpecPersist == PersistInit /\ [][PersistNext]_vars

----------------------------------------------------------------------------
(* Statistics: get_statistics applied to libraries whose books share years, *)
(* ratings, genres and tags                                                 *)

MaxStatBooks == 3

\* keyword arguments of Book(...) for the books counted
StatCtorInputs ==
    { [title |-> T_Du, author |-> A_H, genre |-> <<"F">>, year |-> Some(1965),
       rating |-> Some(4), tags |-> <<Tag_sf>>],
      [title |-> T_E, author |-> A_h, genre |-> <<"F">>, year |-> Some(1965),
       status |-> Borrowed, tags |-> <<Tag_x, Tag_sf>>],
      [title |-> <<"u", "d">>, author |-> A_H, year |-> Some(1950),
       rating |-> Some(2)],
      [title |-> T_dU, author |-> A_h, genre |-> <<"G">>, year |-> Some(1999),
       rating |-> Some(4), status |-> Lost],
      [title |-> T_E, author |-> A_H] }

StatBooks == {BookInit(a, Today0) : a \in StatCtorInputs}

StatLibraries == UNION {[1..n -> StatBooks] : n \in 0..MaxStatBooks}

StatInit ==
    /\ name = DefaultName
    /\ books \in StatLibraries
    /\ file_path = DefaultFilePath
    /\ files = InitialFiles
    /\ today = Today0
    /\ last = NoCall
    /\ nops = 0
    /\ NoUI

\* library.get_statistics(): it reads the library and changes nothing, so
\* one call on each library stands for every call on it
do_statistics ==
    /\ nops = 0
    /\ nops' = 1
    /\ last' = IF statistics_raises(books)
               THEN [op |-> "get_statistics", args |-> <<>>, err |-> "TypeError",
                     ret |-> <<>>, st_error |-> FALSE]
               ELSE [op |-> "get_statistics", args |-> <<>>, err |-> "",
                     ret |-> get_statistics(books), st_error |-> FALSE]
    /\ UNCHANGED <<name, books, file_path, files, today>>
    /\ UNCHANGED uivars

StatNext == do_statistics

SpecStats == StatInit /\ [][StatNext]_vars

----------------------------------------------------------------------------
(* The user interface.  Every step is one script run of main(): a click    *)
(* or a choice in a selectbox starts a run, and st.rerun() ends a run and   *)
(* starts another in which no widget is set.                                *)
(*                                                                          *)
(* What the model follows of Streamlit:                                     *)
(*   - st.session_state lasts from run to run;                              *)
(*   - the user acts on the widgets the last run made, the sidebar          *)
(*     included; a run an exception stopped leaves the widgets it made      *)
(*     before the exception;                                                *)
(*   - a widget is known by its kind, its label, its key, its form and, a   *)
(*     text or number input, its default value, a selectbox, its formatted  *)
(*     options.  A button or a form_submit_button is set in a run when the  *)
(*     user clicked one the run makes again, so a widget nested under a     *)
(*     button never takes effect; an input has the value the user gave it   *)
(*     when the run makes it again, and its default value when not;         *)
(*   - a selectbox keeps its value while every run makes it again, st.rerun *)
(*     coming after it or not; one the last run did not make has its first  *)
(*     option as value.  Choosing an option of a selectbox outside a form   *)
(*     is a run of its own;                                                 *)
(*   - a run does not always go to its end.  While it goes on the browser   *)
(*     still shows the widgets of the screen before it, and when the user   *)
(*     acts on one of them the script runner ends the run in the next call  *)
(*     of st.* that sends something to the browser (it raises               *)
(*     RerunException there, which no except clause of the program          *)
(*     catches) and starts the run of the new event.  What the run did      *)
(*     before that call stays done, and the call counts as made; the event  *)
(*     that started the run is lost.  A run that has passed its last call   *)
(*     of st.* goes to its end.  An event that comes in when the run has    *)
(*     reached st.rerun(), or during the run st.rerun() starts, takes the   *)
(*     place of that run.                                                   *)
(* What it leaves out: the Search page, the Filter page, the Statistics     *)
(* page and the export, which change neither the library nor a key of the   *)
(* session state (the button "View Book Details" of the Search and Filter   *)
(* pages is made under the test of the submit button of their form, lines   *)
(* 662-721 and 763-825, and so never takes effect), a number input of the   *)
(* book form the user leaves empty, and, of a run the script runner ended,  *)
(* the widgets it had already made again: the user acts on those of the     *)
(* screen before it.                                                        *)

MaxRuns == 6

\* str.split(",")
RECURSIVE SplitOnComma(_)
SplitOnComma(s) ==
    IF \E i \in 1..Len(s) : s[i] = ","
    THEN LET i == CHOOSE k \in 1..Len(s) :
                      s[k] = "," /\ \A j \in 1..(k - 1) : s[j] # ","
         IN  <<SubSeq(s, 1, i - 1)>> \o SplitOnComma(SubSeq(s, i + 1, Len(s)))
    ELSE <<s>>

\* tags_list of add_edit_book: the stripped parts of tags_input that are
\* not empty
tags_list(tags_input) ==
    LET parts    == IF tags_input # <<>> THEN SplitOnComma(tags_input) ELSE <<>>
        stripped == [i \in 1..Len(parts) |-> Strip(parts[i])]
    IN  SelectSeq(stripped, LAMBDA tag : tag # <<>>)

\* x if x > 0 else None, for the number x of a widget
PositiveOrNone(x) == IF x[1] > 0 THEN x ELSE NoneVal

\* the keyword arguments add_edit_book passes to update_book and to Book, for
\* the values v of the widgets of the form
form_kwargs(v) ==
    [ title       |-> v.title,
      author      |-> v.author,
      isbn        |-> v.isbn,
      genre       |-> v.genre,
      year        |-> PositiveOrNone(v.year),
      publisher   |-> v.publisher,
      pages       |-> PositiveOrNone(v.pages),
      description |-> v.description,
      location    |-> v.location,
      rating      |-> PositiveOrNone(v.rating),
      tags        |-> tags_list(v.tags_input) ]

\* the keyword arguments in the order of the call of update_book
FormKeys ==
    <<"title", "author", "isbn", "genre", "year", "publisher", "pages",
      "description", "location", "rating", "tags">>

\* the items of the keyword arguments kw
form_items(kw) == [k \in 1..Len(FormKeys) |-> <<FormKeys[k], kw[FormKeys[k]]>>]

\* the default values of the widgets of the book form when a book is added
AddDefaults ==
    [ title       |-> <<>>,
      author      |-> <<>>,
      isbn        |-> <<>>,
      genre       |-> <<>>,
      year        |-> Some(0),
      publisher   |-> <<>>,
      pages       |-> Some(0),
      description |-> <<>>,
      location    |-> DefaultLocation,
      rating      |-> Some(0),
      tags_input  |-> <<>> ]

\* the default values of the widgets of the book form when book is edited:
\* current_values and ", ".join(book.tags)
current_values(book) ==
    [ title       |-> book.title,
      author      |-> book.author,
      isbn        |-> book.isbn,
      genre       |-> book.genre,
      year        |-> book.year,
      publisher   |-> book.publisher,
      pages       |-> book.pages,
      description |-> book.description,
      location    |-> book.location,
      rating      |-> book.rating,
      tags_input  |-> Join(<<",", " ">>, book.tags) ]

\* f"{title} by {author}", the format_func of the selectboxes of books
by_author(book) == book.title \o <<" ", "b", "y", " ">> \o book.author

\* f"{title} (borrowed by {borrowed_by})", the format_func of the selectbox
\* of the books to return
borrowed_by_label(book) ==
    book.title
        \o <<" ", "(", "b", "o", "r", "r", "o", "w", "e", "d", " ", "b", "y", " ">>
        \o book.borrowed_by \o <<")">>

\* the keys of the session state that hold a book id
IdKeys == {"current_book_id", "lending_book_id", "tag_book_id"}

\* init_session_state and the active_tab main() adds.  lending_book_id and
\* tag_book_id are not in the session state before a handler sets them; the
\* code treats that like None.  search_results and filter_results are
\* written and never read.
InitialSession ==
    [ current_book_id   |-> NoneVal,
      show_book_details |-> FALSE,
      active_tab        |-> "Library",
      lending_book_id   |-> NoneVal,
      tag_book_id       |-> NoneVal ]

NothingChosen == [k \in IdKeys |-> NoneVal]

\* a selectbox a run made: its formatted options and the position of its
\* value among them, counted from 1
Box(options, value) == [options |-> options, value |-> value]

\* a selectbox the run did not make
NoBox == Box(<<>>, 0)

\* the four selectboxes of books: "Select a book to view details:", "Select
\* a book to lend:", "Select a book to return:", "Select a book to manage
\* tags:"
NoBoxes ==
    [view_details |-> NoBox, to_lend |-> NoBox, to_return |-> NoBox,
     manage_tags |-> NoBox]

\* the text inputs "Save Path" and "Load Path" were not made
NoPaths == [save |-> "", load |-> ""]

\* what a script run leaves in the browser: the view; the buttons and forms
\* of the main content; the book id in the keys of the buttons of
\* display_book_details; the selectboxes of books; the default values the
\* inputs of the book form and the two path inputs were made with; the
\* options of "Select tag to remove:"; whether the book of the buttons has
\* left the list since; and, while the run st.rerun() started goes on, the
\* screen the browser still shows
Screen(view, buttons, boxes) ==
    [ view     |-> view,
      buttons  |-> buttons,
      book     |-> NoneVal,
      boxes    |-> boxes,
      defaults |-> AddDefaults,
      paths    |-> NoPaths,
      tags     |-> <<>>,
      gone     |-> FALSE,
      stale    |-> NoneVal ]

\* st.rerun() was called: the next run has started.  The selectboxes made
\* before the call keep their values
Rerunning(boxes) == Screen("rerun", {}, boxes)

\* the run stopped with an exception nobody caught
Stopped(buttons, boxes) == Screen("exception", buttons, boxes)

\* the widget the user acted on, and the values that go with it
Event(widget, v) == [widget |-> widget, v |-> v]

\* no widget is set
NoEvent == Event("rerun", <<>>)

\* the value of a selectbox of books with these options, in a run started by
\* ev from the screen pg
BoxValue(pg, ev, box, options) ==
    IF pg.boxes[box].options # options THEN 1
    ELSE IF ev.widget = "selectbox" /\ ev.v[1] = box THEN ev.v[2]
    ELSE pg.boxes[box].value

\* a key that holds None stands for no chosen book
Forget(ch, s) == [k \in IdKeys |-> IF s[k] = NoneVal THEN NoneVal ELSE ch[k]]

\* the chosen books after the book with id r has left the list
AfterRemoval(ch, r) ==
    [k \in IdKeys |->
        IF ch[k] = NoneVal THEN NoneVal
        ELSE IF ch[k][1] = r THEN Some(0 - 1)
        ELSE IF ch[k][1] > r THEN Some(ch[k][1] - 1)
        ELSE ch[k]]

\* the chosen books after the list was replaced by another
AfterReplacement(ch) ==
    [k \in IdKeys |-> IF ch[k] = NoneVal THEN NoneVal ELSE Some(0 - 1)]

\* the library, the files and the session state a run works on
World ==
    [ name |-> name, books |-> books, file_path |-> file_path, files |-> files,
      session |-> session, chosen |-> chosen ]

\* what a run did: the world and the screen it leaves, the exception that
\* stopped it ("" for none), the calls it made on the library with a book
\* id, each with the key of the session state or the widget the id was read
\* from, whether it called st.error, whether it called st.success, and the
\* calls of st.* it made in its page
Did(w, p, err, calls, st_error) ==
    [w |-> w, page |-> p, err |-> err, calls |-> calls, st_error |-> st_error,
     st_success |-> FALSE, cuts |-> {}]

\* a call of st.* a run makes in its page: the world at that call, the calls
\* made on the library before it, and whether st.error and st.success were
\* called, this call included
Cut(w, calls, st_error) ==
    [w |-> w, calls |-> calls, st_error |-> st_error, st_success |-> FALSE]

\* the run, or the call of st.*, has called st.success
Success(x) == [x EXCEPT !.st_success = TRUE]

\* a call of st.* that follows all that r did
After(r) ==
    [w |-> r.w, calls |-> r.calls, st_error |-> r.st_error,
     st_success |-> r.st_success]

\* the run that did r made these calls of st.*
Passing(cuts, r) == [r EXCEPT !.cuts = @ \cup cuts]

\* library.save_to_file() in a handler: open() succeeds
can_save(w) == Writable(w.file_path)

\* library.save_to_file() in a handler, when open() has succeeded
saved(w) ==
    [w EXCEPT !.files = [@ EXCEPT ![w.file_path] = saved_document(w.name, w.books)]]

\* the book on the screen is one "Delete Book" has taken from the list,
\* in a run that did not go on to st.rerun()
GoneFromList(pg) == pg.gone

\* the book the user chooses with a button of display_book_details
Picked(pg, book_id) == IF GoneFromList(pg) THEN Some(0 - 1) ELSE Some(book_id)

\* the handler of "Delete Book": remove_book, save_to_file, st.success,
\* show_book_details = False, st.rerun()
delete_pressed(w, book_id, calls) ==
    LET w1 == [w EXCEPT !.books = RemoveAt(@, book_id + 1),
                        !.chosen = AfterRemoval(@, book_id)]
    IN  IF can_save(w1)
        THEN \* st.success comes before show_book_details = False
             Passing({Success(Cut(saved(w1), calls, FALSE))},
                     Success(Did([saved(w1) EXCEPT
                                      !.session.show_book_details = FALSE],
                                 Rerunning(NoBoxes), "", calls, FALSE)))
        ELSE \* open() raises OSError and no handler catches it
             Did(w1, [Stopped({"Edit Book", "Delete Book"}, NoBoxes)
                          EXCEPT !.book = Some(book_id), !.gone = TRUE],
                 "OSError", calls, FALSE)

\* display_book_details(st.session_state.current_book_id)
display_book_details(w, pg, ev) ==
    LET book_id == w.session.current_book_id[1]
        got     == << <<"get_book", book_id, "current_book_id">> >>
    IN  IF ~valid_id(w.books, book_id)
        THEN \* get_book raises ValueError: st.error
             Passing({Cut(w, got, TRUE)},
                     Did(w, Screen("error", {}, NoBoxes), "", got, TRUE))
        ELSE
        \* get_book, then st.columns and what the first column shows
        Passing({Cut(w, got, FALSE)},
        LET book == w.books[book_id + 1]
            \* the button with this label and the key of book_id is set
            set(label) == ev.widget = label /\ pg.book = Some(book_id)
            third == IF book.status = Available THEN {"Lend Book"}
                     ELSE IF book.status = Borrowed THEN {"Return Book"}
                     ELSE {}
        IN  IF set("Edit Book")
            THEN Did([w EXCEPT !.session.current_book_id = Some(book_id),
                               !.session.active_tab = "Add/Edit Book",
                               !.chosen.current_book_id = Picked(pg, book_id)],
                     Rerunning(NoBoxes), "", got, FALSE)
            ELSE IF set("Delete Book")
            THEN delete_pressed(w, book_id,
                     got \o << <<"remove_book", book_id, "current_book_id">> >>)
            ELSE IF book.status = Available /\ set("Lend Book")
            THEN Did([w EXCEPT !.session.lending_book_id = Some(book_id),
                               !.session.active_tab = "Lend/Return",
                               !.chosen.lending_book_id = Picked(pg, book_id)],
                     Rerunning(NoBoxes), "", got, FALSE)
            ELSE IF book.status = Borrowed /\ set("Return Book")
            THEN LET w1 == [w EXCEPT !.books[book_id + 1] = return_book(@)]
                     calls == got \o << <<"return_book", book_id, "current_book_id">> >>
                 IN  IF can_save(w1)
                     THEN \* st.success comes before st.rerun()
                          Passing({Success(Cut(saved(w1), calls, FALSE))},
                                  Success(Did(saved(w1), Rerunning(NoBoxes), "",
                                              calls, FALSE)))
                     ELSE Did(w1, [Stopped({"Edit Book", "Delete Book", "Return Book"},
                                           NoBoxes) EXCEPT !.book = Some(book_id)],
                              "OSError", calls, FALSE)
            ELSE IF set("Manage Tags")
            THEN Did([w EXCEPT !.session.tag_book_id = Some(book_id),
                               !.session.active_tab = "Manage Tags",
                               !.chosen.tag_book_id = Picked(pg, book_id)],
                     Rerunning(NoBoxes), "", got, FALSE)
            ELSE Did(w, [Screen("details",
                                {"Edit Book", "Delete Book", "Manage Tags"} \cup third,
                                NoBoxes) EXCEPT !.book = Some(book_id)],
                     "", got, FALSE))

\* the defaults the widgets of the book form are made with, for the values
\* cur the code passes them: the slider makes None its minimum
form_defaults(cur) == [cur EXCEPT !.rating = IF @ = NoneVal THEN Some(0) ELSE @]

\* the values of the widgets of the book form in a run that makes them with
\* the defaults cur, when the screen had them with the defaults shown and
\* the user gave them the values v
widget_values(shown, cur, v) ==
    LET given == [v EXCEPT !.year = Some(@), !.pages = Some(@), !.rating = Some(@)]
    IN  [f \in DOMAIN cur |-> IF shown[f] = cur[f] THEN given[f] ELSE cur[f]]

\* the handler of the book form, past the tests of title and author, with
\* the keyword arguments kw: update_book or add_book, st.success,
\* save_to_file, current_book_id = None, active_tab = "Library", st.rerun()
book_form_pressed(w, editing, id, kw, got, stopped, with_cancel) ==
    IF editing
    THEN LET w1 == [w EXCEPT !.books[id + 1] = update_attrs(@, form_items(kw)).book]
             calls == got \o << <<"update_book", id, "current_book_id">> >>
         IN  \* st.success comes before save_to_file
             Passing({Success(Cut(w1, calls, FALSE))},
                 IF can_save(w1)
                 THEN Success(Did([saved(w1) EXCEPT
                                       !.session.current_book_id = NoneVal,
                                       !.session.active_tab = "Library"],
                                  Rerunning(NoBoxes), "", calls, FALSE))
                 ELSE \* open() raises OSError and no handler catches it
                      Success(Did(w1, stopped, "OSError", calls, FALSE)))
    ELSE IF has_duplicate(w.books, BookInit(kw, today))
    THEN \* add_book raises ValueError, caught: st.error, and the cancel
         \* button after it
         Passing({Cut(w, got, TRUE)}, Did(w, with_cancel, "", got, TRUE))
    ELSE LET w1 == [w EXCEPT !.books = Append(@, BookInit(kw, today))]
         IN  \* st.success comes before save_to_file
             Passing({Success(Cut(w1, got, FALSE))},
                 IF can_save(w1)
                 THEN Success(Did([saved(w1) EXCEPT
                                       !.session.current_book_id = NoneVal,
                                       !.session.active_tab = "Library"],
                                  Rerunning(NoBoxes), "", got, FALSE))
                 ELSE \* open() raises OSError and no handler catches it
                      Success(Did(w1, stopped, "OSError", got, FALSE)))

\* the handler of the submit button of the book form, where v are the
\* values of its widgets
book_form_submitted(w, editing, id, v, got, form) ==
    IF v.title = <<>> \/ v.author = <<>>
    THEN \* st.error, return: the cancel button is not reached
         Passing({Cut(w, got, TRUE)}, Did(w, form, "", got, TRUE))
    ELSE IF v.year = NoneVal \/ v.pages = NoneVal
    THEN \* None > 0 raises TypeError
         Did(w, [form EXCEPT !.view = "exception"], "TypeError", got, FALSE)
    ELSE book_form_pressed(w, editing, id, form_kwargs(v), got,
                           [form EXCEPT !.view = "exception"],
                           [form EXCEPT !.buttons = @ \cup {"Cancel"}])

\* add_edit_book from its form on, which is made with the defaults cur
book_form(w, pg, ev, editing, id, cur) ==
    LET submit_label == IF editing THEN "Update Book" ELSE "Add Book"
        form         == [Screen("form", {submit_label}, NoBoxes)
                            EXCEPT !.defaults = cur]
        got          == IF editing
                        THEN << <<"get_book", id, "current_book_id">> >>
                        ELSE <<>>
    IN  \* st.subheader and the widgets of the form come after get_book
        Passing({Cut(w, got, FALSE)},
        IF ev.widget = submit_label
        THEN book_form_submitted(w, editing, id,
                                 widget_values(pg.defaults, cur, ev.v), got, form)
        ELSE IF ev.widget = "Cancel"
        THEN Did([w EXCEPT !.session.current_book_id = NoneVal,
                           !.session.active_tab = "Library"],
                 Rerunning(NoBoxes), "", got, FALSE)
        ELSE Did(w, [form EXCEPT !.buttons = {submit_label, "Cancel"}], "", got, FALSE))

\* add_edit_book
add_edit_book(w, pg, ev) ==
    LET book_id == w.session.current_book_id
    IN  IF book_id # NoneVal /\ ~valid_id(w.books, book_id[1])
        THEN \* get_book raises ValueError: st.error, current_book_id =
             \* None, return
             Passing({Cut(w, << <<"get_book", book_id[1], "current_book_id">> >>,
                          TRUE)},
                     Did([w EXCEPT !.session.current_book_id = NoneVal],
                         Screen("error", {}, NoBoxes), "",
                         << <<"get_book", book_id[1], "current_book_id">> >>, TRUE))
        ELSE book_form(w, pg, ev, book_id # NoneVal,
                       IF book_id = NoneVal THEN 0 ELSE book_id[1],
                       IF book_id = NoneVal THEN AddDefaults
                       ELSE form_defaults(current_values(w.books[book_id[1] + 1])))

\* library.filter_books(status=...)
with_status(bs, status) == filter_books(bs, << <<"status", status>> >>, AnyEnv)

\* the handler of the lending form for the book selected_book, whose id was
\* read from source: get_book, lend, save_to_file, st.success, active_tab =
\* "Library", st.rerun()
lend_pressed(w, selected_book, source, borrower, days, boxes) ==
    LET got == << <<"get_book", selected_book, source>> >>
        screen == Screen("Lend/Return", {"lending_form"}, boxes)
    IN  IF borrower = <<>>
        THEN Did(w, screen, "", <<>>, TRUE)
        ELSE IF ~valid_id(w.books, selected_book)
        THEN \* get_book raises ValueError, caught
             Did(w, screen, "", got, TRUE)
        ELSE IF ~lend_ok(w.books[selected_book + 1])
        THEN \* book.lend raises ValueError, caught
             Did(w, screen, "", got \o << <<"lend", selected_book, source>> >>, TRUE)
        ELSE LET w1 == [w EXCEPT !.books[selected_book + 1] =
                                     lend(@, borrower, days, today)]
                 calls == got \o << <<"lend", selected_book, source>> >>
             IN  IF can_save(w1)
                 THEN \* st.success comes before active_tab = "Library"
                      Passing({Success(Cut(saved(w1), calls, FALSE))},
                              Success(Did([saved(w1) EXCEPT
                                               !.session.active_tab = "Library"],
                                          Rerunning(boxes), "", calls, FALSE)))
                 ELSE Did(w1, Stopped({"lending_form"}, boxes), "OSError", calls, FALSE)

\* the tab "Return a Book" of lend_return_books, after the tab "Lend a
\* Book" did lending
return_tab(lending, pg, ev, borrowed_books, return_options, buttons) ==
    IF lending.page.view \in {"rerun", "exception"} THEN lending
    ELSE
    LET \* the calls of st.* of the first tab, and those of this one
        passed == lending.cuts \cup {After(lending)}
    IN  IF borrowed_books = <<>>
        THEN Passing(passed,
                 Did(lending.w, Screen("Lend/Return", buttons, lending.page.boxes),
                     "", lending.calls, lending.st_error))
        ELSE
        LET value == BoxValue(pg, ev, "to_return", return_options)
            boxes == [lending.page.boxes EXCEPT !.to_return = Box(return_options, value)]
            selected_book == borrowed_books[value]
            calls == << <<"get_book", selected_book, "selectbox">>,
                        <<"return_book", selected_book, "selectbox">> >>
            returned == [lending.w EXCEPT
                             !.books[selected_book + 1] = return_book(@)]
        IN  IF ev.widget = "Return a Book"
            THEN Passing(passed,
                     IF can_save(lending.w)
                     THEN \* st.success comes before st.rerun()
                          Passing({Success(Cut(saved(returned), calls, FALSE))},
                                  Success(Did(saved(returned), Rerunning(boxes), "",
                                              calls, FALSE)))
                     ELSE Did([lending.w EXCEPT
                                   !.books[selected_book + 1] = return_book(@)],
                              Stopped(buttons \cup {"Return a Book"}, boxes),
                              "OSError", calls, FALSE))
            ELSE Passing(passed,
                     Did(lending.w,
                         Screen("Lend/Return", buttons \cup {"Return a Book"}, boxes),
                         "", lending.calls, lending.st_error))

\* the tab "Lend a Book" of lend_return_books when there are books to lend
\* and lending_book_id holds an id: the id is read and reset
lend_tab_pinned(w, ev) ==
    LET w0 == [w EXCEPT !.session.lending_book_id = NoneVal]
    IN  Passing({Cut(w0, <<>>, FALSE)},
            IF ev.widget = "lending_form"
            THEN lend_pressed(w0, w.session.lending_book_id[1], "lending_book_id",
                              ev.v[1], ev.v[2], NoBoxes)
            ELSE Did(w0, Screen("Lend/Return", {}, NoBoxes), "", <<>>, FALSE))

\* the tab "Lend a Book" of lend_return_books when there are books to lend
\* and the selectbox with these options is made
lend_tab_select(w, ev, available_books, boxes) ==
    IF ev.widget = "lending_form"
    THEN lend_pressed(w, available_books[boxes.to_lend.value], "selectbox",
                      ev.v[1], ev.v[2], boxes)
    ELSE Did(w, Screen("Lend/Return", {}, boxes), "", <<>>, FALSE)

\* the tab "Lend a Book" of lend_return_books
lend_tab(w, pg, ev, available_books, lend_options) ==
    IF available_books = <<>>
    THEN Did(w, Screen("Lend/Return", {}, NoBoxes), "", <<>>, FALSE)
    ELSE IF w.session.lending_book_id # NoneVal
    THEN lend_tab_pinned(w, ev)
    ELSE lend_tab_select(w, ev, available_books,
             [NoBoxes EXCEPT !.to_lend =
                 Box(lend_options, BoxValue(pg, ev, "to_lend", lend_options))])

\* the formatted options of a selectbox of the books with these ids
Options(bs, ids, format_func(_)) == [i \in 1..Len(ids) |-> format_func(bs[ids[i] + 1])]

\* lend_return_books, with the books to lend and the books to return
lend_and_return(w, pg, ev, available_books, borrowed_books) ==
    return_tab(lend_tab(w, pg, ev, available_books,
                        Options(w.books, available_books, by_author)),
               pg, ev, borrowed_books,
               Options(w.books, borrowed_books, borrowed_by_label),
               IF available_books = <<>> THEN {} ELSE {"lending_form"})

\* lend_return_books
lend_return_books(w, pg, ev) ==
    lend_and_return(w, pg, ev, with_status(w.books, Available),
                    with_status(w.books, Borrowed))

\* manage_tags
manage_tags(w, pg, ev) ==
    LET \* tag_book_id is read and reset
        pinned == w.session.tag_book_id # NoneVal
        w0 == IF pinned THEN [w EXCEPT !.session.tag_book_id = NoneVal] ELSE w
    IN  IF ~pinned /\ w.books = <<>>
        THEN Did(w, Screen("Manage Tags", {}, NoBoxes), "", <<>>, FALSE)
        ELSE
        LET options == [i \in 1..Len(w.books) |-> by_author(w.books[i])]
            box     == IF pinned THEN NoBox
                       ELSE Box(options, BoxValue(pg, ev, "manage_tags", options))
            boxes   == [NoBoxes EXCEPT !.manage_tags = box]
            book_id == IF pinned THEN w.session.tag_book_id[1] ELSE box.value - 1
            source  == IF pinned THEN "tag_book_id" ELSE "selectbox"
            got     == << <<"get_book", book_id, source>> >>
        IN  IF ~valid_id(w.books, book_id)
            THEN \* get_book raises ValueError: st.error
                 Passing({Cut(w0, got, TRUE)},
                         Did(w0, Screen("error", {}, boxes), "", got, TRUE))
            ELSE
            \* get_book, then st.write and the forms
            Passing({Cut(w0, got, FALSE)},
            LET book == w.books[book_id + 1]
            IN  IF ev.widget = "add_tag_form" /\ ev.v # <<>>
                THEN LET w1 == [w0 EXCEPT !.books[book_id + 1] = add_tag(@, ev.v)]
                         calls == got \o << <<"add_tag", book_id, source>> >>
                     IN  IF can_save(w1)
                         THEN \* st.success comes before st.rerun()
                              Passing({Success(Cut(saved(w1), calls, FALSE))},
                                      Success(Did(saved(w1), Rerunning(boxes), "",
                                                  calls, FALSE)))
                         ELSE Did(w1, Stopped({"add_tag_form"}, boxes),
                                  "OSError", calls, FALSE)
                ELSE IF book.tags = <<>>
                THEN Did(w0, Screen("Manage Tags", {"add_tag_form"}, boxes),
                         "", got, FALSE)
                ELSE IF ev.widget = "remove_tag_form"
                THEN LET \* the user's choice when the selectbox has the options
                         \* it had on the screen, and else the first option
                         tag_to_remove == IF pg.tags = book.tags THEN book.tags[ev.v]
                                          ELSE book.tags[1]
                         w1 == [w0 EXCEPT !.books[book_id + 1] =
                                              remove_tag(@, tag_to_remove)]
                         calls == got \o << <<"remove_tag", book_id, source>> >>
                     IN  IF can_save(w1)
                         THEN \* st.success comes before st.rerun()
                              Passing({Success(Cut(saved(w1), calls, FALSE))},
                                      Success(Did(saved(w1), Rerunning(boxes), "",
                                                  calls, FALSE)))
                         ELSE Did(w1, [Stopped({"add_tag_form", "remove_tag_form"},
                                               boxes) EXCEPT !.tags = book.tags],
                                  "OSError", calls, FALSE)
                ELSE \* under "Clear All Tags" the checkbox that confirms is
                     \* made, not checked: nothing is cleared
                     Did(w0, [Screen("Manage Tags",
                                     {"add_tag_form", "remove_tag_form", "Clear All Tags"}
                                         \cup (IF ev.widget = "Clear All Tags"
                                               THEN {"checkbox"} ELSE {}),
                                     boxes) EXCEPT !.tags = book.tags],
                         "", got, FALSE))

\* library.load_from_file(load_path) in the world w
loaded(w, load_path) ==
    LET doc == w.files[load_path]
        r   == IF doc.kind = "missing"
               THEN [name |-> w.name, books |-> w.books, st_error |-> FALSE]
               ELSE load_document(doc, w.name, w.books, today)
    IN  [ w |-> [w EXCEPT !.file_path = load_path,
                          !.name = r.name,
                          !.books = r.books,
                          !.chosen = IF doc.kind # "missing" /\ ~r.st_error
                                     THEN AfterReplacement(@) ELSE @],
          st_error |-> r.st_error ]

\* the handler of the load form: load_from_file, which calls st.error
\* for a document it cannot read, st.success, st.rerun()
load_pressed(r) ==
    Passing((IF r.st_error THEN {Cut(r.w, <<>>, TRUE)} ELSE {})
                \cup {Success(Cut(r.w, <<>>, r.st_error))},
            Success(Did(r.w, Rerunning(NoBoxes), "", <<>>, r.st_error)))

\* library_settings
library_settings(w, pg, ev) ==
    IF ev.widget = "library_name_form" /\ ev.v # ""
    THEN LET w1 == [w EXCEPT !.name = ev.v]
         IN  IF can_save(w1)
             THEN \* st.success comes before st.rerun()
                  Passing({Success(Cut(saved(w1), <<>>, FALSE))},
                          Success(Did(saved(w1), Rerunning(NoBoxes), "", <<>>, FALSE)))
             ELSE Did(w1, Stopped({"library_name_form"}, NoBoxes), "OSError", <<>>, FALSE)
    ELSE
    LET name_error == ev.widget = "library_name_form"
        \* "Save Path" is made with the default library.file_path
        save_default == w.file_path
        save_path == IF pg.paths.save = save_default THEN ev.v ELSE save_default
        \* library.save_to_file(save_path), and st.error for any exception
        w1 == IF ev.widget # "save_form" THEN w
              ELSE IF Writable(save_path)
              THEN saved([w EXCEPT !.file_path = save_path])
              ELSE [w EXCEPT !.file_path = save_path]
        save_error == ev.widget = "save_form" /\ ~Writable(save_path)
        \* "Load Path" is made after the handler of the save form
        load_default == w1.file_path
        load_path == IF pg.paths.load = load_default THEN ev.v ELSE load_default
    IN  IF ev.widget = "load_form"
        THEN \* library.load_from_file(load_path), st.success, st.rerun()
             load_pressed(loaded(w1, load_path))
        ELSE LET shown == Did(w1, [Screen("Settings",
                                          {"library_name_form", "save_form",
                                           "load_form"},
                                          NoBoxes)
                                      EXCEPT !.paths = [save |-> save_default,
                                                        load |-> load_default]],
                              "", <<>>, name_error \/ save_error)
                 \* st.success(f"Library saved to: {save_path}")
                 done  == IF ev.widget = "save_form" /\ ~save_error
                          THEN Success(shown) ELSE shown
             IN  \* the load form and the export come after the handlers
                 Passing({After(done)}, done)

\* the Library tab of main()
library_tab(w, pg, ev) ==
    IF ev.widget = "Add New Book"
    THEN Did([w EXCEPT !.session.active_tab = "Add/Edit Book",
                       !.session.current_book_id = NoneVal],
             Rerunning(NoBoxes), "", <<>>, FALSE)
    ELSE IF w.books = <<>>
    THEN Did(w, Screen("Library", {"Add New Book"}, NoBoxes), "", <<>>, FALSE)
    ELSE
    LET options == [i \in 1..Len(w.books) |-> by_author(w.books[i])]
        box     == Box(options, BoxValue(pg, ev, "view_details", options))
        boxes   == [NoBoxes EXCEPT !.view_details = box]
        book_id == box.value - 1
    IN  IF ev.widget = "View Book Details"
        THEN Did([w EXCEPT !.session.current_book_id = Some(book_id),
                           !.session.show_book_details = TRUE,
                           !.chosen.current_book_id = Some(book_id)],
                 Rerunning(boxes), "", <<>>, FALSE)
        ELSE Did(w, Screen("Library", {"Add New Book", "View Book Details"}, boxes),
                 "", <<>>, FALSE)

Tabs ==
    {"Library", "Add/Edit Book", "Search", "Filter", "Lend/Return",
     "Manage Tags", "Statistics", "Settings"}

\* a button of the sidebar
sidebar_pressed(w, tab) ==
    Did(CASE tab = "Library" ->
                [w EXCEPT !.session.active_tab = tab,
                          !.session.show_book_details = FALSE]
          [] tab = "Add/Edit Book" ->
                [w EXCEPT !.session.active_tab = tab,
                          !.session.current_book_id = NoneVal]
          [] OTHER -> [w EXCEPT !.session.active_tab = tab],
        Rerunning(NoBoxes), "", <<>>, FALSE)

\* a page of main() that this model leaves empty
other_tab(w) == Did(w, Screen(w.session.active_tab, {}, NoBoxes), "", <<>>, FALSE)

\* the books of the library the session starts with: one with a tag, one
\* lent a week ago, one more to lend, one more lent
ShelfBooks ==
    << BookInit([title |-> T_Du, author |-> A_H, year |-> Some(1965),
                 tags |-> <<Tag_sf>>], Today0 - 54),
       lend(BookInit([title |-> T_E, author |-> A_h], Today0 - 54),
            B_Al, 14, Today0 - 7),
       BookInit([title |-> <<"u", "d">>, author |-> <<"K", "u">>,
                 tags |-> <<Tag_x>>], Today0 - 54),
       lend(BookInit([title |-> <<"Z">>, author |-> A_H], Today0 - 54),
            <<"B", "o">>, 7, Today0 - 10) >>

\* the libraries library_data.json holds when the session starts
ShelfLibraries == {<<>>, ShelfBooks}

\* the values the user gives the widgets of the book form
FormInputs ==
    { [ title |-> <<"N">>, author |-> A_H, isbn |-> <<>>, genre |-> <<"F">>,
        year |-> 0, publisher |-> <<>>, pages |-> 7, description |-> <<>>,
        location |-> DefaultLocation, rating |-> 0,
        tags_input |-> <<" ", "x", ",", "\t", ",", "s", "f">> ],
      [ title |-> T_dU, author |-> A_h, isbn |-> <<>>, genre |-> <<>>,
        year |-> 1999, publisher |-> <<>>, pages |-> 0, description |-> <<>>,
        location |-> <<"S", "h", "e", "l", "f", " ", "3">>, rating |-> 4,
        tags_input |-> <<>> ],
      [ title |-> <<>>, author |-> A_H, isbn |-> <<>>, genre |-> <<>>,
        year |-> 0, publisher |-> <<>>, pages |-> 0, description |-> <<>>,
        location |-> DefaultLocation, rating |-> 0, tags_input |-> <<>> ] }

\* (borrower, days) of the lending form
LendFormInputs == { <<B_Al, 14>>, <<<<>>, 14>> }

\* the text of the add-tag form
NewTagInputs == {Tag_sf, <<>>}

\* the text of the library-name form
NameInputs == {"Den", ""}

\* the paths typed into the save form and into the load form
SaveFormInputs == {"new.json", "nodir/x.json"}
LoadFormInputs == {"good.json", "broken.json"}

\* the selectboxes outside a form
BoxNames == DOMAIN NoBoxes

\* what a run leaves in last: the widget that started it ("rerun" for none)
\* and the values the user gave, the exception that ended the run ("" for
\* none, "RerunException" when the script runner ended it for the next
\* event), the calls it made on the library with a book id, whether it
\* called st.error, and whether it called st.success
Ran(widget, args, err, calls, st_error, st_success) ==
    /\ nops' = nops + 1
    /\ last' = [op |-> widget, args |-> args, err |-> err, ret |-> calls,
                st_error |-> st_error, st_success |-> st_success]

\* the screen the browser shows while a run started by ev from the screen
\* pg goes on: the widgets the user acted on, a selectbox with the option the
\* user chose
StaleScreen(pg, ev) ==
    LET shown == IF pg.view = "rerun" THEN pg.stale[1] ELSE pg
    IN  IF ev.widget = "selectbox"
        THEN [shown EXCEPT !.boxes[ev.v[1]].value = ev.v[2]]
        ELSE shown

\* the ways a run started by ev that did r can end: at its end, or where
\* the script runner raises RerunException because the user has acted on a
\* widget meanwhile, which is in a call of st.* main() makes before the page
\* (lines 1261-1329: nothing is done) or in one of the calls of st.* of the
\* page
Outcomes(ev, r) ==
    LET stale  == StaleScreen(page, ev)
        places == {Cut(World, <<>>, FALSE)} \cup r.cuts
    IN  { [ w |-> r.w, err |-> r.err, calls |-> r.calls, st_error |-> r.st_error,
            st_success |-> r.st_success,
            page |-> IF r.page.view = "rerun"
                     THEN [r.page EXCEPT !.stale = <<stale>>] ELSE r.page ] }
        \cup
        { [ w |-> c.w, err |-> "RerunException", calls |-> c.calls,
            st_error |-> c.st_error, st_success |-> c.st_success,
            page |-> [stale EXCEPT !.gone = @ \/ Len(c.w.books) < Len(books)] ]
          : c \in places }

\* the variables after a run started by ev that did r
Finish(ev, r) ==
    \E o \in Outcomes(ev, r) :
        /\ name' = o.w.name
        /\ books' = o.w.books
        /\ file_path' = o.w.file_path
        /\ files' = o.w.files
        /\ session' = o.w.session
        /\ chosen' = Forget(o.w.chosen, o.w.session)
        /\ page' = o.page
        /\ today' = today
        /\ Ran(ev.widget, <<ev.v>>, o.err, o.calls, o.st_error, o.st_success)

\* the first script run: init_session_state makes the library and loads
\* library_data.json, and main() shows the Library tab
UIInit ==
    /\ books \in ShelfLibraries
    /\ name = (IF books = <<>> THEN DefaultName ELSE "Home")
    /\ file_path = DefaultFilePath
    /\ files = (IF books = <<>> THEN InitialFiles
                ELSE [InitialFiles EXCEPT ![DefaultFilePath] =
                                              saved_document("Home", books)])
    /\ today = Today0
    /\ last = NoCall
    /\ nops = 0
    /\ session = InitialSession
    /\ chosen = NothingChosen
    /\ page = library_tab(World, Rerunning(NoBoxes), NoEvent).page

\* the widgets of the screen that start a run: none after st.rerun(), which
\* starts the run itself, and otherwise the buttons of the sidebar, the
\* buttons and forms of the page, and its selectboxes outside a form
Offered ==
    IF page.view = "rerun" THEN {"rerun"}
    ELSE IF nops >= MaxRuns THEN {}
    ELSE {"sidebar"} \cup page.buttons
            \cup (IF \E box \in BoxNames : Len(page.boxes[box].options) > 1
                  THEN {"selectbox"} ELSE {})

\* what the user can give the widget that starts a run: the button of the
\* sidebar, another option of a selectbox, the values of the widgets of a
\* form, and nothing for a button
Given(widget) ==
    CASE widget = "sidebar" -> Tabs
      [] widget = "selectbox" ->
            {o \in BoxNames \X (1..Len(books)) :
                /\ o[2] <= Len(page.boxes[o[1]].options)
                /\ o[2] # page.boxes[o[1]].value}
      [] widget \in {"Add Book", "Update Book"} -> FormInputs
      [] widget = "lending_form" -> LendFormInputs
      [] widget = "add_tag_form" -> NewTagInputs
      [] widget = "remove_tag_form" -> 1..Len(page.tags)
      [] widget = "library_name_form" -> NameInputs
      [] widget = "save_form" -> SaveFormInputs
      [] widget = "load_form" -> LoadFormInputs
      [] OTHER -> {<<>>}

\* main() shows the details of a book
ShowsDetails == session.show_book_details /\ session.current_book_id # NoneVal

\* main() shows this tab
ShowsTab(tab) == ~ShowsDetails /\ session.active_tab = tab

\* main(), past init_session_state, is one script run: a button of the
\* sidebar that is clicked sets the tab and calls st.rerun(), and otherwise
\* main() shows the details of a book or the active tab.  Every action is
\* one of these branches, in a run started by a widget of the screen.

\* a button of the sidebar is clicked
sidebar_clicked ==
    \E tab \in Given("sidebar") :
        /\ "sidebar" \in Offered
        /\ Finish(Event("sidebar", tab), sidebar_pressed(World, tab))

\* display_book_details runs
details_shown ==
    \E widget \in Offered \ {"sidebar"} : \E v \in Given(widget) :
        /\ ShowsDetails
        /\ Finish(Event(widget, v),
                  display_book_details(World, page, Event(widget, v)))

\* the Library tab runs
library_shown ==
    \E widget \in Offered \ {"sidebar"} : \E v \in Given(widget) :
        /\ ShowsTab("Library")
        /\ Finish(Event(widget, v), library_tab(World, page, Event(widget, v)))

\* add_edit_book runs
add_edit_shown ==
    \E widget \in Offered \ {"sidebar"} : \E v \in Given(widget) :
        /\ ShowsTab("Add/Edit Book")
        /\ Finish(Event(widget, v), add_edit_book(World, page, Event(widget, v)))

\* lend_return_books runs
lend_return_shown ==
    \E widget \in Offered \ {"sidebar"} : \E v \in Given(widget) :
        /\ ShowsTab("Lend/Return")
        /\ Finish(Event(widget, v),
                  lend_return_books(World, page, Event(widget, v)))

\* manage_tags runs
manage_tags_shown ==
    \E widget \in Offered \ {"sidebar"} : \E v \in Given(widget) :
        /\ ShowsTab("Manage Tags")
        /\ Finish(Event(widget, v), manage_tags(World, page, Event(widget, v)))

\* library_settings runs
settings_shown ==
    \E widget \in Offered \ {"sidebar"} : \E v \in Given(widget) :
        /\ ShowsTab("Settings")
        /\ Finish(Event(widget, v),
                  library_settings(World, page, Event(widget, v)))

\* a page that this model leaves empty runs
other_tab_shown ==
    \E widget \in Offered \ {"sidebar"} : \E v \in Given(widget) :
        /\ ~ShowsDetails
        /\ session.active_tab \in {"Search", "Filter", "Statistics"}
        /\ Finish(Event(widget, v), other_tab(World))

UINext ==
    \/ sidebar_clicked
    \/ details_shown
    \/ library_shown
    \/ add_edit_shown
    \/ lend_return_shown
    \/ manage_tags_shown
    \/ settings_shown
    \/ other_tab_shown

SpecUI == UIInit /\ [][UINext]_vars

----------------------------------------------------------------------------
(* Vocabulary of the properties *)

\* the step is a call (or a day passing), described by last'
IsStep == nops' = nops + 1

\* same title and same author, compared without regard to letter case
SameTitleAuthor(a, b) ==
    Lower(a.title) = Lower(b.title) /\ Lower(a.author) = Lower(b.author)

\* the three lending fields of a book
AllLendingFieldsSet(b) ==
    TruthyStr(b.borrowed_by) /\ TruthyStr(b.borrowed_date) /\ TruthyStr(b.due_date)
AllLendingFieldsEmpty(b) ==
    b.borrowed_by = <<>> /\ b.borrowed_date = <<>> /\ b.due_date = <<>>

IsDigit(c) == \E i \in 1..10 : DigitChars[i] = c
DigitVal(c) == (CHOOSE i \in 1..10 : DigitChars[i] = c) - 1

RECURSIVE NumAt(_, _, _)
\* the number written in s[a..b]
NumAt(s, a, b) == IF a > b THEN 0 ELSE NumAt(s, a, b - 1) * 10 + DigitVal(s[b])

IsLeap(y) == y % 4 = 0 /\ (y % 100 # 0 \/ y % 400 = 0)

\* the year, the month and the day of a date string: the month and the
\* day are the last two pairs of digits, the year what stands before them
YearOf(s) == NumAt(s, 1, Len(s) - 6)
MonthOf(s) == NumAt(s, Len(s) - 4, Len(s) - 3)
DayOf(s) == NumAt(s, Len(s) - 1, Len(s))

\* s reads Y-MM-DD, the year in one digit or more, and names a day of the
\* calendar
IsDate(s) ==
    /\ Len(s) >= 7
    /\ s[Len(s) - 5] = "-" /\ s[Len(s) - 2] = "-"
    /\ \A i \in 1..Len(s) : i \notin {Len(s) - 5, Len(s) - 2} => IsDigit(s[i])
    /\ YearOf(s) >= 1
    /\ MonthOf(s) \in 1..12
    /\ DayOf(s) >= 1
    /\ DayOf(s) <= DaysInMonth[MonthOf(s)]
            + (IF MonthOf(s) = 2 /\ IsLeap(YearOf(s)) THEN 1 ELSE 0)

\* the day the date string s names, counted from 0001-01-01 = 1
DateOrdinal(s) ==
    LET y == YearOf(s)
        m == MonthOf(s)
        d == DayOf(s)
    IN  (y - 1) * 365 + ((y - 1) \div 4) - ((y - 1) \div 100) + ((y - 1) \div 400)
            + DaysBeforeMonth[m] + (IF m > 2 /\ IsLeap(y) THEN 1 ELSE 0) + d

\* the fields of a book
KnownAttributes ==
    {"title", "author", "isbn", "genre", "year", "publisher", "pages",
     "description", "location", "status", "rating", "date_added",
     "borrowed_by", "borrowed_date", "due_date", "tags"}

\* the names a book has an attribute for: its fields, and what its class
\* gives it
IsAttribute(key) == key \in KnownAttributes \cup ClassAttributes

\* the value the book has for a name of its class, when update has stored one
Stored(b, key) == IF HasKey(b.extra, key) THEN Some(ItemValue(b.extra, key)) ELSE NoneVal

----------------------------------------------------------------------------
(* C1 *)

\* C1: in every reachable state no two books of the collection have the
\* same (title, author) pair under case-insensitive comparison.
C1_NoDuplicateTitleAuthor ==
    \A i, j \in 1..Len(books) : i # j => ~SameTitleAuthor(books[i], books[j])

(* C2 *)

\* C2: for every book in every reachable state, status = Borrowed if and
\* only if borrowed_by, borrowed_date and due_date are all non-empty, and
\* status = Available if and only if all three are empty.
C2_LendingFieldsFollowStatus ==
    \A i \in 1..Len(books) :
        /\ books[i].status = Borrowed <=> AllLendingFieldsSet(books[i])
        /\ books[i].status = Available <=> AllLendingFieldsEmpty(books[i])

(* C3 *)

\* where the book at position i is after the step (0: no longer held)
PositionAfter(i) ==
    IF last'.op = "remove_book" /\ last'.err = ""
    THEN IF i < last'.args[1] + 1 THEN i
         ELSE IF i = last'.args[1] + 1 THEN 0 ELSE i - 1
    ELSE IF last'.op = "load_from_file" THEN 0
    ELSE i

\* C3: the status of a book held by the library changes only from Available
\* to Borrowed through a successful lend of that book, and from Borrowed to
\* Available through a successful return_book of that book; no other
\* operation and no other transition changes it.
C3_StatusChangesOnlyByLendAndReturn ==
    [][ IsStep =>
        \A i \in 1..Len(books) :
            LET j == PositionAfter(i)
            IN  (j # 0 /\ books'[j].status # books[i].status) =>
                    \/ /\ last'.op = "lend" /\ last'.err = ""
                       /\ last'.args[1] = i - 1
                       /\ books[i].status = Available
                       /\ books'[j].status = Borrowed
                    \/ /\ last'.op = "return_book" /\ last'.err = ""
                       /\ last'.args[1] = i - 1
                       /\ books[i].status = Borrowed
                       /\ books'[j].status = Available ]_vars

(* C4 *)

\* C4: lend(borrower, days) on a book whose status is Available sets status
\* to Borrowed, borrowed_by to borrower, borrowed_date to today and due_date
\* to borrowed_date + days; lend on a book whose status is anything else
\* fails and leaves every field of the book unchanged.  The operation is
\* the method lend of Book: a book on which an update has stored a value
\* under the name lend no longer has it (C9).
C4_LendContract ==
    [][ (IsStep /\ last'.op = "lend"
            /\ 0 <= last'.args[1] /\ last'.args[1] < Len(books)
            /\ is_method(books[last'.args[1] + 1], "lend")) =>
        LET p   == last'.args[1] + 1
            old == books[p]
            new == books'[p]
        IN  IF old.status = Available
            THEN /\ last'.err = ""
                 /\ new.status = Borrowed
                 /\ new.borrowed_by = last'.args[2]
                 /\ IsDate(new.borrowed_date)
                 /\ DateOrdinal(new.borrowed_date) = today
                 /\ IsDate(new.due_date)
                 /\ DateOrdinal(new.due_date)
                        = DateOrdinal(new.borrowed_date) + last'.args[3]
            ELSE /\ last'.err # ""
                 /\ new = old
                 /\ books' = books ]_vars

(* C5 *)

\* C5: return_book() on a book whose status is Borrowed sets status to
\* Available and clears borrowed_by, borrowed_date and due_date;
\* return_book() on a book whose status is not Borrowed fails and leaves
\* every field of the book unchanged.  The operation is the method
\* return_book of Book.
C5_ReturnContract ==
    [][ (IsStep /\ last'.op = "return_book"
            /\ 0 <= last'.args[1] /\ last'.args[1] < Len(books)
            /\ is_method(books[last'.args[1] + 1], "return_book")) =>
        LET p   == last'.args[1] + 1
            old == books[p]
            new == books'[p]
        IN  IF old.status = Borrowed
            THEN /\ last'.err = ""
                 /\ new.status = Available
                 /\ AllLendingFieldsEmpty(new)
            ELSE /\ last'.err # ""
                 /\ new = old
                 /\ books' = books ]_vars

\* a book that had been lent by a call was returned by the next one
C5_Witness ==
    /\ last.op = "return_book" /\ last.err = ""
    /\ books[last.args[1] + 1].status = Available
    /\ AllLendingFieldsEmpty(books[last.args[1] + 1])

(* C6 *)

\* C6: add(book) fails with a duplicate error and leaves the collection
\* unchanged when some existing book has the same title and author compared
\* case-insensitively; otherwise it appends the book as the last element
\* and leaves the existing books in their previous order.
C6_AddContract ==
    [][ (IsStep /\ last'.op = "add_book") =>
        LET book == last'.args[1]
        IN  IF \E i \in 1..Len(books) : SameTitleAuthor(books[i], book)
            THEN /\ last'.err = "ValueError"
                 /\ books' = books
            ELSE /\ last'.err = ""
                 /\ Len(books') = Len(books) + 1
                 /\ books'[Len(books')] = book
                 /\ \A i \in 1..Len(books) : books'[i] = books[i] ]_vars

\* an add was refused for a book that differs from the existing one in
\* letter case only
C6_Witness ==
    /\ last.op = "add_book" /\ last.err = "ValueError"
    /\ \E i \in 1..Len(books) :
        /\ SameTitleAuthor(books[i], last.args[1])
        /\ books[i].title # last.args[1].title
        /\ books[i].author # last.args[1].author

(* C7 *)

\* C7: constructing a Book with an empty title or an empty author fails
\* with a validation error, so no book with an empty title or author is
\* ever created or added to the library.
C7_EmptyTitleOrAuthorRejected ==
    /\ \A i \in 1..Len(books) : books[i].title # <<>> /\ books[i].author # <<>>
    /\ (last.op = "add_book"
            /\ (last.args[1].title = <<>> \/ last.args[1].author = <<>>))
        => last.err = "ValidationError"

(* C8 *)

\* C8: remove(id) with id outside [0, length) fails and leaves the
\* collection unchanged; with id inside the range it returns the book that
\* was at position id, the length decreases by one, books below id keep
\* their position and every book previously at j > id is then at j - 1.
C8_RemoveContract ==
    [][ (IsStep /\ last'.op = "remove_book") =>
        LET id == last'.args[1]
            n  == Len(books)
        IN  IF 0 <= id /\ id < n
            THEN /\ last'.err = ""
                 /\ last'.ret = <<books[id + 1]>>
                 /\ Len(books') = n - 1
                 /\ \A j \in 0..(id - 1) : books'[j + 1] = books[j + 1]
                 /\ \A j \in (id + 1)..(n - 1) : books'[j] = books[j + 1]
            ELSE /\ last'.err = "ValueError"
                 /\ books' = books ]_vars

\* a book was removed from between two others
C8_Witness ==
    /\ last.op = "remove_book" /\ last.err = ""
    /\ last.args[1] >= 1
    /\ last.args[1] < Len(books)

(* C9 *)

\* C9: update(id, mapping) with an invalid id fails and changes nothing;
\* with a valid id it overwrites on the book at position id exactly the
\* supplied fields that name a known attribute (a field of the book or a
\* name its class gives it), ignores unknown field names, and leaves every
\* other field of that book, every other book and the order of the
\* collection unchanged.
C9_UpdateContract ==
    [][ (IsStep /\ last'.op = "update_book") =>
        LET id     == last'.args[1]
            kwargs == last'.args[2]
        IN  IF 0 <= id /\ id < Len(books)
            THEN LET old == books[id + 1]
                     new == books'[id + 1]
                 IN  /\ last'.err = ""
                     /\ Len(books') = Len(books)
                     /\ \A j \in 1..Len(books) : j # id + 1 => books'[j] = books[j]
                     /\ DOMAIN new = DOMAIN old
                     /\ \A k \in KnownAttributes :
                            new[k] = IF HasKey(kwargs, k) THEN ItemValue(kwargs, k)
                                     ELSE old[k]
                     /\ \A k \in ClassAttributes :
                            Stored(new, k) =
                                IF HasKey(kwargs, k) THEN Some(ItemValue(kwargs, k))
                                ELSE Stored(old, k)
                     /\ \A j \in 1..Len(new.extra) : IsAttribute(new.extra[j][1])
            ELSE /\ last'.err = "ValueError"
                 /\ books' = books ]_vars

(* C10 *)

\* the string form of the attribute field of book b, when it has one: the
\* attribute exists and its value is not None
HasStringForm(b, field) ==
    /\ IsAttribute(field)
    /\ IF Stored(b, field) # NoneVal THEN Stored(b, field)[1] # NoneVal
       ELSE IF field \in KnownAttributes THEN ~IsNone(field, b[field])
       ELSE field # "__weakref__"

\* the string form of the attribute field of the book b with id i under the
\* interpreter env: of a number its decimal digits, of a text the text, of
\* what the class gives what str makes of it
StringForm(b, i, field, env) ==
    IF Stored(b, field) # NoneVal THEN IntStr(Stored(b, field)[1][1])
    ELSE IF field \in {"year", "pages", "rating"} THEN IntStr(b[field][1])
    ELSE IF field \in KnownAttributes THEN b[field]
    ELSE ClassAttributeStr(b, i, field, env)

\* the lowercased query is a substring of the lowercased string form of a
\* listed field, or of a tag when "tags" is listed
QueryMatches(b, i, query, fields, env) ==
    \E k \in 1..Len(fields) :
        IF fields[k] = "tags"
        THEN \E t \in 1..Len(b.tags) : IsSubstr(Lower(query), Lower(b.tags[t]))
        ELSE /\ HasStringForm(b, fields[k])
             /\ IsSubstr(Lower(query), Lower(StringForm(b, i, fields[k], env)))

ListedFields(fields) ==
    IF fields = NoneVal
    THEN <<"title", "author", "isbn", "genre", "publisher", "description", "tags">>
    ELSE fields[1]

\* C10: search(query, fields) returns, in strictly ascending index order
\* with no index repeated, exactly the indices of the books for which the
\* lowercased query is a substring of the lowercased string form of a
\* listed field (a field that is None has none), or of a tag when "tags" is
\* listed; a query that is a substring of a book's title in any letter case
\* returns that book's index when the title is searched.
C10_SearchContract ==
    last.op = "search_books" =>
        LET query  == last.args[1]
            fields == ListedFields(last.args[2])
            r      == last.ret
        IN  /\ \A k \in 1..(Len(r) - 1) : r[k] < r[k + 1]
            /\ \A k \in 1..Len(r) : r[k] \in 0..(Len(books) - 1)
            /\ \A i \in 0..(Len(books) - 1) :
                   (\E k \in 1..Len(r) : r[k] = i)
                       <=> QueryMatches(books[i + 1], i, query, fields, last.args[3])
            /\ \A i \in 0..(Len(books) - 1) :
                   (/\ \E k \in 1..Len(fields) : fields[k] = "title"
                    /\ IsSubstr(Lower(query), Lower(books[i + 1].title)))
                       => \E k \in 1..Len(r) : r[k] = i

\* a search found two books, one by a title that holds the query in another
\* letter case only, one that matches in two of the listed fields
C10_Witness ==
    /\ last.op = "search_books"
    /\ Len(last.ret) = 2
    /\ \E k \in 1..2 :
        LET b == books[last.ret[k] + 1]
        IN  /\ IsSubstr(Lower(last.args[1]), Lower(b.title))
            /\ ~IsSubstr(last.args[1], b.title)
    /\ \E k \in 1..2 :
        LET b == books[last.ret[k] + 1]
        IN  /\ IsSubstr(Lower(last.args[1]), Lower(b.title))
            /\ IsSubstr(Lower(last.args[1]), Lower(b.author))

(* C11 *)

\* C11: search with an empty query returns the empty result (and no error),
\* whatever books the library holds.
C11_EmptyQueryFindsNothing ==
    (last.op = "search_books" /\ last.args[1] = <<>>) =>
        (last.err = "" /\ last.ret = <<>>)

(* C12 *)

\* the keys a filter supplies, the value it gives for a key, and the ids it
\* returned
FilterKeys(kwargs) == {kwargs[k][1] : k \in 1..Len(kwargs)}
FilterValue(kwargs, key) ==
    kwargs[CHOOSE k \in 1..Len(kwargs) : kwargs[k][1] = key][2]
ReturnedIds(r) == {r[k] : k \in 1..Len(r)}

\* C12: filter(year_from=Y1, year_to=Y2) returns exactly the indices of the
\* books whose year is present and satisfies Y1 <= year <= Y2 (both bounds
\* inclusive); a book with no year is never in the result of a
\* year-bounded filter.
C12_YearRangeFilter ==
    (last.op = "filter_books"
        /\ FilterKeys(last.args[1]) = {"year_from", "year_to"}) =>
        LET Y1 == FilterValue(last.args[1], "year_from")
            Y2 == FilterValue(last.args[1], "year_to")
        IN  /\ Len(last.ret) = Cardinality(ReturnedIds(last.ret))
            /\ ReturnedIds(last.ret) =
                   { i \in 0..(Len(books) - 1) :
                        /\ books[i + 1].year # NoneVal
                        /\ Y1 <= books[i + 1].year[1]
                        /\ books[i + 1].year[1] <= Y2 }
            /\ \A i \in 0..(Len(books) - 1) :
                   books[i + 1].year = NoneVal => i \notin ReturnedIds(last.ret)

\* a year-bounded filter kept a book whose year is the upper bound and
\* dropped a book that has no year
C12_Witness ==
    /\ last.op = "filter_books"
    /\ FilterKeys(last.args[1]) = {"year_from", "year_to"}
    /\ Len(books) = 2
    /\ \E i \in 1..2 :
        /\ (i - 1) \in ReturnedIds(last.ret)
        /\ books[i].year = Some(FilterValue(last.args[1], "year_to"))
    /\ \E i \in 1..2 :
        /\ (i - 1) \notin ReturnedIds(last.ret)
        /\ books[i].year = NoneVal

(* C13 *)

RangeKeys == {"year_from", "year_to", "rating_from", "rating_to"}

\* the attribute key of the book b is equal to value: what an update stored
\* under a name of the class, a field, the documentation or the module of
\* the class, or None for __weakref__; a method, the class and the __dict__
\* are equal to no value a filter gives
HasValue(b, key, value, env) ==
    IF Stored(b, key) # NoneVal THEN Stored(b, key)[1] = value
    ELSE IF key \in KnownAttributes THEN b[key] = value
    ELSE IF key = "__doc__" THEN value = BookDoc
    ELSE IF key = "__module__" THEN value = env.module
    ELSE IF key = "__weakref__" THEN value = NoneVal
    ELSE FALSE

\* the attribute a range key bounds
RangeAttribute(key) == IF key \in {"year_from", "year_to"} THEN "year" ELSE "rating"

\* the value v lies on the allowed side of the bound a range key gives
WithinBound(key, v, bound) ==
    IF key \in {"year_from", "rating_from"} THEN bound <= v ELSE v <= bound

\* the book satisfies the predicate (key, value), a range predicate being
\* ignored when the book has no value for its attribute
SatisfiesIgnoringAbsent(b, key, value, env) ==
    IF key \in RangeKeys
    THEN b[RangeAttribute(key)] = NoneVal
            \/ WithinBound(key, b[RangeAttribute(key)][1], value)
    ELSE IsAttribute(key) /\ HasValue(b, key, value, env)

\* the book has no value for the attribute of a range key the filter supplies
LacksRangedAttribute(b, kwargs) ==
    \E k \in 1..Len(kwargs) :
        kwargs[k][1] \in RangeKeys /\ b[RangeAttribute(kwargs[k][1])] = NoneVal

\* C13: in filter, a range predicate (year_from, year_to, rating_from,
\* rating_to) is ignored for a book whose corresponding attribute (year,
\* respectively rating) is absent: such a book is in the result whenever it
\* satisfies all the other supplied predicates.
C13_RangeIgnoredWhenAbsent ==
    last.op = "filter_books" =>
        \A i \in 0..(Len(books) - 1) :
            (/\ LacksRangedAttribute(books[i + 1], last.args[1])
             /\ \A k \in 1..Len(last.args[1]) :
                    SatisfiesIgnoringAbsent(books[i + 1], last.args[1][k][1],
                                            last.args[1][k][2], last.args[2]))
                => i \in ReturnedIds(last.ret)

\* C13, as the code has it: in filter, a range predicate (year_from,
\* year_to, rating_from, rating_to) is not ignored for a book whose
\* corresponding attribute (year, respectively rating) is absent: such a
\* book satisfies no range predicate on that attribute and is in the result
\* of no filter that supplies one, whatever the other predicates.
C13_RangeExcludesAbsent ==
    last.op = "filter_books" =>
        \A i \in 0..(Len(books) - 1) :
            LacksRangedAttribute(books[i + 1], last.args[1])
                => i \notin ReturnedIds(last.ret)

\* a filter with a rating bound dropped a book that has no rating and
\* satisfies every other predicate of the filter
C13_Witness ==
    /\ last.op = "filter_books"
    /\ Len(last.args[1]) = 2
    /\ \E i \in 0..(Len(books) - 1) :
        /\ books[i + 1].rating = NoneVal
        /\ books[i + 1].year # NoneVal
        /\ \E k \in 1..2 : last.args[1][k][1] \in {"rating_from", "rating_to"}
        /\ \A k \in 1..2 :
               SatisfiesIgnoringAbsent(books[i + 1], last.args[1][k][1],
                                       last.args[1][k][2], last.args[2])
        /\ i \notin ReturnedIds(last.ret)

(* C14 *)

\* the book satisfies the predicate (key, value): a range predicate when
\* the attribute is present and within the bound, a predicate on a known
\* attribute when the values are equal, a predicate with an unknown key never
Satisfies(b, key, value, env) ==
    IF key \in RangeKeys
    THEN /\ b[RangeAttribute(key)] # NoneVal
         /\ WithinBound(key, b[RangeAttribute(key)][1], value)
    ELSE IsAttribute(key) /\ HasValue(b, key, value, env)

\* C14: filter(predicates) returns, in ascending index order, exactly the
\* indices of the books that satisfy every supplied predicate (logical
\* AND), where a predicate on a known attribute (a field of the book or a
\* name its class gives it) is exact equality with the book's value and a
\* predicate with an unknown key is satisfied by no book, so that a filter
\* containing an unknown key yields the empty result and a filter with no
\* predicate yields every index.
C14_FilterContract ==
    last.op = "filter_books" =>
        LET kwargs == last.args[1]
            env    == last.args[2]
            r      == last.ret
        IN  /\ last.err = ""
            /\ \A k \in 1..(Len(r) - 1) : r[k] < r[k + 1]
            /\ ReturnedIds(r) =
                   { i \in 0..(Len(books) - 1) :
                        \A k \in 1..Len(kwargs) :
                            Satisfies(books[i + 1], kwargs[k][1], kwargs[k][2], env) }
            /\ (\E k \in 1..Len(kwargs) :
                    ~IsAttribute(kwargs[k][1]) /\ kwargs[k][1] \notin RangeKeys)
                   => r = <<>>
            /\ kwargs = <<>> => r = [i \in 1..Len(books) |-> i - 1]

\* a filter with two predicates, one of them an equality, kept the second
\* of two books and dropped the first, which satisfies one predicate only
C14_Witness ==
    /\ last.op = "filter_books"
    /\ Len(last.args[1]) = 2
    /\ \E k \in 1..2 : last.args[1][k][1] \in KnownAttributes
    /\ Len(books) = 2
    /\ last.ret = <<1>>
    /\ \E k \in 1..2 : Satisfies(books[1], last.args[1][k][1], last.args[1][k][2],
                                   last.args[2])

(* C15 *)

\* the file a load with the optional argument path reads, in a library
\* whose file path is fp
PathRead(path, fp) == IF path = NoneVal THEN fp ELSE path[1]

\* C15: save(path) followed by load(path) on a fresh Library reproduces the
\* same library name and the same ordered list of books with every field
\* equal (including lending sub-state and tags); equivalently, for every
\* book b, serialize(deserialize(serialize(b))) = serialize(b).
C15_SaveLoadRoundTrip ==
    [][ (IsStep /\ last.op = "save_to_file" /\ last.err = ""
            /\ last'.op = "load_fresh"
            /\ PathRead(last'.args[1], DefaultFilePath) = file_path) =>
        /\ last'.err = ""
        /\ ~last'.st_error
        /\ last'.ret[1] = name
        /\ Len(last'.ret[2]) = Len(books)
        /\ \A i \in 1..Len(books) :
               /\ DOMAIN last'.ret[2][i] = DOMAIN books[i]
               /\ \A k \in KnownAttributes : last'.ret[2][i][k] = books[i][k]
        /\ \A i \in 1..Len(books) :
               to_dict(from_dict(to_dict(books[i]), today)) = to_dict(books[i])
      ]_vars

\* a fresh library read back, on a later day, a saved library of two books,
\* one of them lent and one with tags
C15_Witness ==
    /\ last.op = "load_fresh"
    /\ PathRead(last.args[1], DefaultFilePath) = DefaultFilePath
    /\ files[DefaultFilePath].kind = "object"
    /\ today > Today0
    /\ last.ret[1] = "Home"
    /\ Len(last.ret[2]) = 2
    /\ \E i \in 1..2 : last.ret[2][i].status = Borrowed
                        /\ AllLendingFieldsSet(last.ret[2][i])
    /\ \E i \in 1..2 : last.ret[2][i].tags # <<>>

(* C16 *)

\* C16: load(path) for a path at which no document exists raises no error
\* and leaves the current state of an already-populated library untouched
\* (same name, same ordered book list); repeating it any number of times
\* has the same effect as doing it once.
C16_LoadMissingIsNoOp ==
    [][ (IsStep /\ last'.op = "load_from_file"
            /\ files[PathRead(last'.args[1], file_path)].kind = "missing") =>
        /\ last'.err = ""
        /\ ~last'.st_error
        /\ name' = name
        /\ books' = books
      ]_vars

\* a library that holds books and has a name of its own was told to load
\* from its current path, which is not the default one and where no file is
C16_Witness ==
    /\ last.op = "load_from_file"
    /\ last.args[1] = NoneVal
    /\ files[file_path].kind = "missing"
    /\ file_path # DefaultFilePath
    /\ Len(books) > 0
    /\ name # DefaultName

(* C17 *)

\* the document is not parseable, not of the expected structure, or holds a
\* book without title or author
InvalidDocument(doc) ==
    \/ doc.kind \in {"garbage", "array"}
    \/ /\ doc.kind = "object"
       /\ "books" \in DOMAIN doc.data
       /\ \E i \in 1..Len(doc.data.books) :
              ~({"title", "author"} \subseteq DOMAIN doc.data.books[i])

\* C17: load(path) on a structurally invalid document (not parseable, not
\* of the expected structure, or containing a book without title or author)
\* surfaces a distinct error outcome to its caller; the core never swallows
\* the failure and returns as if the load had succeeded.
C17_InvalidDocumentReported ==
    (last.op = "load_from_file" /\ InvalidDocument(files[file_path]))
        => last.err # ""

(* C18 *)

\* the count a histogram gives for a key (0 when it has no such bucket)
CountOf(h, key) ==
    IF \E j \in 1..Len(h) : h[j][1] = key
    THEN h[CHOOSE j \in 1..Len(h) : h[j][1] = key][2]
    ELSE 0

RECURSIVE SumOfCounts(_)
SumOfCounts(h) == IF h = <<>> THEN 0 ELSE Head(h)[2] + SumOfCounts(Tail(h))

\* C18: statistics() never fails; on an empty catalog it returns
\* total/available/borrowed = 0, average rating 0 and empty genre, author,
\* year and tag histograms; on any catalog total_books is the number of
\* books, available_books and borrowed_books are the numbers of books with
\* status Available and Borrowed, and the rating histogram has exactly the
\* buckets 1 to 5 and "unrated", counting each rated book in its rating's
\* bucket and each book without rating in "unrated", so the bucket counts
\* sum to total_books.
C18_StatisticsCounts ==
    last.op = "get_statistics" =>
        LET st == last.ret
            n  == Len(books)
        IN  /\ last.err = ""
            /\ n = 0 =>
                 /\ st.total_books = 0
                 /\ st.available_books = 0
                 /\ st.borrowed_books = 0
                 /\ st.avg_rating = 0
                 /\ st.genres = <<>> /\ st.authors = <<>>
                 /\ st.years = <<>> /\ st.tags = <<>>
            /\ st.total_books = n
            /\ st.available_books =
                   Cardinality({i \in 1..n : books[i].status = Available})
            /\ st.borrowed_books =
                   Cardinality({i \in 1..n : books[i].status = Borrowed})
            /\ Len(st.ratings.stars) = 5
            /\ {st.ratings.stars[j][1] : j \in 1..5} = 1..5
            /\ \A r \in 1..5 :
                   CountOf(st.ratings.stars, r) =
                       Cardinality({i \in 1..n : books[i].rating = Some(r)})
            /\ st.ratings.unrated =
                   Cardinality({i \in 1..n : books[i].rating = NoneVal})
            /\ SumOfCounts(st.ratings.stars) + st.ratings.unrated = st.total_books

\* the statistics of three books: two share a rating, one has none, one is
\* lent and one is neither available nor lent
C18_Witness ==
    /\ last.op = "get_statistics"
    /\ last.ret.total_books = 3
    /\ last.ret.borrowed_books = 1
    /\ last.ret.available_books = 1
    /\ \E r \in 1..5 : CountOf(last.ret.ratings.stars, r) = 2
    /\ last.ret.ratings.unrated = 1

(* C19 *)

\* the positions of the books that have a year, and the first position
\* whose year is the least, respectively the greatest, of them
Dated == {i \in 1..Len(books) : books[i].year # NoneVal}
FirstOldest ==
    CHOOSE i \in Dated :
        /\ \A j \in Dated : books[i].year[1] <= books[j].year[1]
        /\ \A j \in Dated : (j < i) => books[j].year[1] # books[i].year[1]
FirstNewest ==
    CHOOSE i \in Dated :
        /\ \A j \in Dated : books[i].year[1] >= books[j].year[1]
        /\ \A j \in Dated : (j < i) => books[j].year[1] # books[i].year[1]

\* C19: statistics() reports as oldest_book the (title, year) of the first
\* book in collection order whose year is the minimum over the books that
\* have a year, and as newest_book the (title, year) of the first book in
\* collection order whose year is the maximum (a later book replaces the
\* current one only on strict improvement); both are absent when no book
\* has a year.
C19_OldestAndNewest ==
    last.op = "get_statistics" =>
        IF Dated = {}
        THEN last.ret.oldest_book = NoneVal /\ last.ret.newest_book = NoneVal
        ELSE /\ last.ret.oldest_book =
                    Some(<<books[FirstOldest].title, books[FirstOldest].year[1]>>)
             /\ last.ret.newest_book =
                    Some(<<books[FirstNewest].title, books[FirstNewest].year[1]>>)

\* two books with different titles share the least year, a book without
\* year stands before them, and the first of the two is reported as oldest
C19_Witness ==
    /\ last.op = "get_statistics"
    /\ Len(books) = 3
    /\ books[1].year = NoneVal
    /\ books[2].year # NoneVal
    /\ books[3].year = books[2].year
    /\ books[3].title # books[2].title
    /\ last.ret.oldest_book = Some(<<books[2].title, books[2].year[1]>>)
    /\ last.ret.newest_book = Some(<<books[2].title, books[2].year[1]>>)

(* C20 *)

\* how often the tag t occurs in the tags of b
TagCount(b, t) == Cardinality({k \in 1..Len(b.tags) : b.tags[k] = t})

\* C20: for every book reachable through construction, update,
\* deserialization and tag operations, the tag collection never holds the
\* same tag twice, and add_tag(t) and remove_tag(t) are idempotent: after
\* add_tag(t) the tag t is present exactly once, after remove_tag(t) the
\* tag t is absent, and applying either operation a second time changes
\* nothing.
C20_TagsAreASet ==
    [][ IsStep =>
        /\ \A i \in 1..Len(books') :
               \A k \in 1..Len(books'[i].tags) :
                   TagCount(books'[i], books'[i].tags[k]) = 1
        /\ (last'.op = "add_tag" /\ last'.err = "") =>
               TagCount(books'[last'.args[1] + 1], last'.args[2]) = 1
        /\ (last'.op = "remove_tag" /\ last'.err = "") =>
               TagCount(books'[last'.args[1] + 1], last'.args[2]) = 0
        /\ (/\ last'.op \in {"add_tag", "remove_tag"}
            /\ last.op = last'.op
            /\ last.args = last'.args
            /\ last.err = "") => books' = books
      ]_vars

(* C21 *)

\* C21: the date_added of a book is set once at creation and never changes
\* afterwards: no lend, return_book, add_tag, remove_tag, update, add or
\* remove changes the date_added of a book the library holds before and
\* after the operation.
C21_DateAddedImmutable ==
    [][ (IsStep /\ last'.op \in {"lend", "return_book", "add_tag", "remove_tag",
                                 "update_book", "add_book", "remove_book"}) =>
        \A i \in 1..Len(books) :
            LET j == PositionAfter(i)
            IN  j # 0 => books'[j].date_added = books[i].date_added ]_vars

(* C24 *)

\* the name and the books of the library are those of the document doc
LoadedFrom(doc, nm, bs) ==
    /\ doc.kind = "object"
    /\ nm = Get(doc.data, "name", DefaultName)
    /\ LET docs == Get(doc.data, "books", <<>>)
       IN  /\ Len(bs) = Len(docs)
           /\ \A i \in 1..Len(docs) :
                  /\ {"title", "author"} \subseteq DOMAIN docs[i]
                  /\ bs[i].title = docs[i].title
                  /\ bs[i].author = docs[i].author

\* C24: load is all-or-nothing on the in-memory state: when load(path)
\* returns, either both the name and the book list come from the document
\* at path, or both are what they were before the call; a document whose
\* book list cannot be deserialized never replaces the name alone.
C24_LoadAllOrNothing ==
    [][ (IsStep /\ last'.op = "load_from_file") =>
        \/ name' = name /\ books' = books
        \/ LoadedFrom(files[file_path'], name', books') ]_vars

(* C25 *)

PathCalls == {"save_to_file", "load_from_file"}

\* C25: the file path of the library changes only when save or load is
\* called with an explicit path, and it then changes before anything else
\* happens: also a load(path) that finds no document at path, or that
\* fails, and a save(path) that fails, retarget the file path, so that a
\* following save() without a path writes the current library to that path.
C25_FilePathRetargeting ==
    [][ IsStep =>
        /\ (file_path' # file_path) =>
               last'.op \in PathCalls /\ last'.args[1] # NoneVal
        /\ (last'.op \in PathCalls /\ last'.args[1] # NoneVal) =>
               file_path' = last'.args[1][1]
        /\ (last'.op \in PathCalls /\ last'.args[1] = NoneVal) =>
               file_path' = file_path
        /\ (/\ last.op = "load_from_file" /\ last.args[1] # NoneVal
            /\ last'.op = "save_to_file" /\ last'.args[1] = NoneVal
            /\ last'.err = "") =>
               files'[last.args[1][1]] = saved_document(name, books)
      ]_vars

\* a library that holds a book was told to load from a path where no file
\* is, kept its books, and the save() that followed wrote them there
C25_Witness ==
    /\ last.op = "save_to_file"
    /\ last.args[1] = NoneVal
    /\ last.err = ""
    /\ file_path = "new.json"
    /\ Len(books) > 0
    /\ files["new.json"] = saved_document(name, books)

(* C22 *)

\* the widgets whose handlers change the library: the two submit buttons of
\* the book form (add book, edit book), "Delete Book", the lending form, the
\* two return buttons, the two tag forms and the form of the library name
MutatingWidgets ==
    {"Add Book", "Update Book", "Delete Book", "lending_form", "Return Book",
     "Return a Book", "add_tag_form", "remove_tag_form", "library_name_form"}

\* the handler of a mutating widget has reported that the action is done:
\* it has called st.success (lines 462, 476, 596, 613, 875, 918, 962, 974
\* and 1165)
ReportedMutation ==
    /\ last.op \in MutatingWidgets
    /\ last.st_success

CachedIdCalls ==
    {c \in 1..Len(last.ret) : last.ret[c][3] \in IdKeys}

\* C23: the UI never uses a book id cached in its session state
\* (current_book_id, lending_book_id, tag_book_id) across a removal: every id
\* it reads from the session state and passes to get_book, update_book,
\* remove_book, lend, return_book or a tag operation is the index the book the
\* user chose has at that moment.
C23_NoCachedIdAcrossRemoval ==
    [][ IsStep => \A c \in CachedIdCalls' :
            chosen[last'.ret[c][3]] = Some(last'.ret[c][2]) ]_vars

====
